---------------------------- MODULE Spec2Model ----------------------------
(***************************************************************************)
(* Model of the analytics aggregation engine of the Blinkr loan dashboard  *)
(* (src/dashboard/views.py): the filter pipeline, the normalizers, the     *)
(* KPI calculators, the DPD-bucket / city / amount-band aggregations.      *)
(*                                                                         *)
(* Conventions                                                             *)
(*  - money is an integer number of rupees; Decimal sums are exact and the *)
(*    final float() is exact for the magnitudes modelled;                  *)
(*  - a percentage rounded to 2 decimals is an integer number of           *)
(*    hundredths of a percent (3333 is 33.33);                             *)
(*  - a JSON scalar is a record [k, n]: k = "num" (value n), "null"        *)
(*    (JSON null), "missing" (key absent), "str" (a non-numeric text) or   *)
(*    "text" (the string in field s);                                      *)
(*  - a text field is a string; NoneS is JSON null, MissingS an absent key;*)
(*  - a calendar date is a day number.                                     *)
(***************************************************************************)
EXTENDS Integers, Sequences, FiniteSets, TLC

VARIABLES
    records,    \* the record list the upstream service serves (key 'pr' / 'cwpr')
    request,    \* query parameters of the request handled last
    response,   \* what the handler returned
    divisors,   \* denominators of the divisions the handler performed
    database,   \* the tables of the Django database (MonthlyTarget, LoanRecord)
    calls       \* the set_current_month_target call each worker is executing

vars == <<records, request, response, divisors, database, calls>>

-----------------------------------------------------------------------------
(* Bounds of the model                                                     *)

MaxRecords == 2

-----------------------------------------------------------------------------
(* JSON values                                                             *)

Num(n) == [k |-> "num", n |-> n]
NullV == [k |-> "null", n |-> 0]
MissingV == [k |-> "missing", n |-> 0]
GarbageV == [k |-> "str", n |-> 0]

\* a JSON string with the given text
TextV(s) == [k |-> "text", n |-> 0, s |-> s]

NoneS == "<null>"
MissingS == "<missing>"

\* truthiness of an optional text value: None and '' are falsy
Truthy(s) == s \notin {NoneS, MissingS, ""}

\* dict.get(key): an absent key reads as None
Get(s) == IF s = MissingS THEN NoneS ELSE s

\* dict.get(key, default)
GetOr(s, default) == IF s = MissingS THEN default ELSE s

\* a timestamp text: kind "Z" (…T…Z), "offset" (…T…+hh:mm), "naive" (…T… without
\* suffix), "date" (no 'T'), "bad" (unparseable), "null" or "missing"; day and
\* min are the calendar day and minute of day written in the text, off the
\* written offset in minutes.
Stamp(kind, day, min, off) == [kind |-> kind, day |-> day, min |-> min, off |-> off]
NoStamp == Stamp("null", 0, 0, 0)

-----------------------------------------------------------------------------
(* Numeric coercion                                                        *)

\* the texts of the model that spell a number, with the number
NumberTexts ==
    [t \in {"0", "12", "-7", " 12 ", "1e2", "007", "+5"} |->
        CASE t = "0" -> 0
          [] t = "12" -> 12
          [] t = "-7" -> -7
          [] t = " 12 " -> 12
          [] t = "1e2" -> 100
          [] t = "007" -> 7
          [] OTHER -> 5]

\* the texts of the model Decimal() reads as a quiet NaN
NanTexts == {"nan", "NaN", "NAN"}

\* str.lower() on the texts of the model
Lower(s) ==
    CASE s \in {"NaN", "NAN"} -> "nan"
      [] s \in {"NULL", "Null"} -> "null"
      [] s \in {"None", "NONE"} -> "none"
      [] s = "ABC" -> "abc"
      [] s = "1E2" -> "1e2"
      [] OTHER -> s

\* Decimal(text): surrounding whitespace is dropped, an exponent is read, a
\* NaN spelling gives the NaN value (flag nan), anything else raises
\* InvalidOperation
DecimalOf(s) ==
    IF s \in DOMAIN NumberTexts THEN [ok |-> TRUE, nan |-> FALSE, n |-> NumberTexts[s]]
    ELSE IF Lower(s) \in DOMAIN NumberTexts
         THEN [ok |-> TRUE, nan |-> FALSE, n |-> NumberTexts[Lower(s)]]
    ELSE IF Lower(s) \in NanTexts THEN [ok |-> TRUE, nan |-> TRUE, n |-> 0]
    ELSE [ok |-> FALSE, nan |-> FALSE, n |-> 0]

\* int(text): whitespace and a sign are accepted, an exponent is not
IntLiteral(s) == s \in DOMAIN NumberTexts /\ s # "1e2"

safe_decimal_conversion_TextIsZero(v) == IF v.k = "num" THEN v.n ELSE 0

\* safe_decimal_conversion(value)
safe_decimal_conversion(v) ==
    IF v.k \in {"null", "missing"} THEN 0
    ELSE IF v.k = "num" THEN v.n
    ELSE IF v.k = "str" THEN 0
    ELSE IF v.s = "" \/ Lower(v.s) \in {"nan", "null", "none"} THEN 0
    ELSE IF DecimalOf(v.s).ok THEN DecimalOf(v.s).n
    ELSE 0

\* Decimal(str(record.get(key, 0))): the value, and whether it raises
DecimalStr(v) ==
    IF v.k = "num" THEN v.n
    ELSE IF v.k = "text" THEN DecimalOf(v.s).n
    ELSE 0
DecimalStrRaises(v) ==
    \/ v.k \in {"null", "str"}
    \/ v.k = "text" /\ ~DecimalOf(v.s).ok

\* int(record.get('overdue_days', 0))
IntOf(v) ==
    IF v.k = "num" THEN v.n
    ELSE IF v.k = "text" /\ IntLiteral(v.s) THEN NumberTexts[v.s]
    ELSE 0
IntOfRaises(v) ==
    \/ v.k \in {"null", "str"}
    \/ v.k = "text" /\ ~IntLiteral(v.s)

\* round(x, 2) of the quotient num/den (den > 0), in hundredths when num is
\* scaled by 10000: nearest integer, ties to even
RoundHalfEven(num, den) ==
    LET q == num \div den
        r == num - q * den
    IN  IF 2 * r < den THEN q
        ELSE IF 2 * r > den THEN q + 1
        ELSE IF q % 2 = 0 THEN q ELSE q + 1

\* s[lo] + ... + s[hi], summed by halves
RECURSIVE SumRange(_, _, _)
SumRange(s, lo, hi) ==
    IF lo > hi THEN 0
    ELSE IF lo = hi THEN s[lo]
    ELSE LET mid == (lo + hi) \div 2
         IN  SumRange(s, lo, mid) + SumRange(s, mid + 1, hi)

\* sum(F(r) for r in recs)
SumBy(recs, F(_)) == SumRange([i \in 1..Len(recs) |-> F(recs[i])], 1, Len(recs))

\* any(P(r) for r in recs)
AnyRec(recs, P(_)) == \E i \in 1..Len(recs) : P(recs[i])

-----------------------------------------------------------------------------
(* Dates                                                                   *)

IstOffsetMinutes == 330
MinutesPerDay == 24 * 60

NoDay == [ok |-> FALSE, day |-> 0]
SomeDay(d) == [ok |-> TRUE, day |-> d]

\* parse_datetime_safely(datetime_str)
parse_datetime_safely(ts) ==
    IF ts.kind \in {"null", "missing", "bad"} THEN NoDay
    ELSE IF ts.kind = "date" THEN SomeDay(ts.day)
    ELSE SomeDay(ts.day + ((ts.min + IstOffsetMinutes) \div MinutesPerDay))

\* a date query parameter: absent, a day, or a text strptime rejects
NoDateParam == [k |-> "none", d |-> 0]
DayParam(d) == [k |-> "day", d |-> d]
BadDateParam == [k |-> "bad", d |-> 0]

-----------------------------------------------------------------------------
(* Normalizers                                                             *)

\* the city names of the model
CityTexts ==
    {"", "  ", "Delhi", "New Delhi", "South Delhi", " New Delhi ",
     "DELHI", "new delhi", "Mumbai", "Mumbai Suburban", " mumbai ", "mumbai",
     "MUMBAI", "Navi Mumbai", "Delhi Mumbai", "Medchal", "Medchal Malkajgiri", "Malkajgiri",
     "medchal", "MALKAJGIRI", "Hyderabad", "Pune", " Pune ", "Unknown",
     "Agra", "Bhopal", "Chennai", "Indore", "Jaipur", "Kanpur",
     "Kochi", "Lucknow", "Nagpur", "Patna", "Surat", "Vadodara"}

\* the characters of a city name
CityChars(s) ==
    CASE
         s = "" -> <<>>
      [] s = "  " -> <<" ", " ">>
      [] s = "Delhi" -> <<"D", "e", "l", "h", "i">>
      [] s = "New Delhi" -> <<"N", "e", "w", " ", "D", "e", "l", "h", "i">>
      [] s = "South Delhi" -> <<"S", "o", "u", "t", "h", " ", "D", "e", "l", "h", "i">>
      [] s = " New Delhi " -> <<" ", "N", "e", "w", " ", "D", "e", "l", "h", "i", " ">>
      [] s = "DELHI" -> <<"D", "E", "L", "H", "I">>
      [] s = "new delhi" -> <<"n", "e", "w", " ", "d", "e", "l", "h", "i">>
      [] s = "Mumbai" -> <<"M", "u", "m", "b", "a", "i">>
      [] s = "Mumbai Suburban" -> <<"M", "u", "m", "b", "a", "i", " ", "S", "u", "b", "u", "r", "b", "a", "n">>
      [] s = " mumbai " -> <<" ", "m", "u", "m", "b", "a", "i", " ">>
      [] s = "mumbai" -> <<"m", "u", "m", "b", "a", "i">>
      [] s = "MUMBAI" -> <<"M", "U", "M", "B", "A", "I">>
      [] s = "Navi Mumbai" -> <<"N", "a", "v", "i", " ", "M", "u", "m", "b", "a", "i">>
      [] s = "Delhi Mumbai" -> <<"D", "e", "l", "h", "i", " ", "M", "u", "m", "b", "a", "i">>
      [] s = "Medchal" -> <<"M", "e", "d", "c", "h", "a", "l">>
      [] s = "Medchal Malkajgiri" -> <<"M", "e", "d", "c", "h", "a", "l", " ", "M", "a", "l", "k", "a", "j", "g", "i", "r", "i">>
      [] s = "Malkajgiri" -> <<"M", "a", "l", "k", "a", "j", "g", "i", "r", "i">>
      [] s = "medchal" -> <<"m", "e", "d", "c", "h", "a", "l">>
      [] s = "MALKAJGIRI" -> <<"M", "A", "L", "K", "A", "J", "G", "I", "R", "I">>
      [] s = "Hyderabad" -> <<"H", "y", "d", "e", "r", "a", "b", "a", "d">>
      [] s = "Pune" -> <<"P", "u", "n", "e">>
      [] s = " Pune " -> <<" ", "P", "u", "n", "e", " ">>
      [] s = "Unknown" -> <<"U", "n", "k", "n", "o", "w", "n">>
      [] s = "Agra" -> <<"A", "g", "r", "a">>
      [] s = "Bhopal" -> <<"B", "h", "o", "p", "a", "l">>
      [] s = "Chennai" -> <<"C", "h", "e", "n", "n", "a", "i">>
      [] s = "Indore" -> <<"I", "n", "d", "o", "r", "e">>
      [] s = "Jaipur" -> <<"J", "a", "i", "p", "u", "r">>
      [] s = "Kanpur" -> <<"K", "a", "n", "p", "u", "r">>
      [] s = "Kochi" -> <<"K", "o", "c", "h", "i">>
      [] s = "Lucknow" -> <<"L", "u", "c", "k", "n", "o", "w">>
      [] s = "Nagpur" -> <<"N", "a", "g", "p", "u", "r">>
      [] s = "Patna" -> <<"P", "a", "t", "n", "a">>
      [] s = "Surat" -> <<"S", "u", "r", "a", "t">>
      [] s = "Vadodara" -> <<"V", "a", "d", "o", "d", "a", "r", "a">>

\* the city name with the given characters
TextOf(chars) == CHOOSE s \in CityTexts : CityChars(s) = chars

\* str.lower() on one character
LowerChar(c) ==
    CASE
         c = "A" -> "a"
      [] c = "B" -> "b"
      [] c = "C" -> "c"
      [] c = "D" -> "d"
      [] c = "E" -> "e"
      [] c = "F" -> "f"
      [] c = "G" -> "g"
      [] c = "H" -> "h"
      [] c = "I" -> "i"
      [] c = "J" -> "j"
      [] c = "K" -> "k"
      [] c = "L" -> "l"
      [] c = "M" -> "m"
      [] c = "N" -> "n"
      [] c = "O" -> "o"
      [] c = "P" -> "p"
      [] c = "Q" -> "q"
      [] c = "R" -> "r"
      [] c = "S" -> "s"
      [] c = "T" -> "t"
      [] c = "U" -> "u"
      [] c = "V" -> "v"
      [] c = "W" -> "w"
      [] c = "X" -> "x"
      [] c = "Y" -> "y"
      [] c = "Z" -> "z"
      [] OTHER -> c

\* str.lower() on characters
LowerSeq(chars) == [i \in 1..Len(chars) |-> LowerChar(chars[i])]

\* str.strip() on characters
StripChars(chars) ==
    LET inked == {i \in 1..Len(chars) : chars[i] # " "}
    IN  IF inked = {} THEN <<>>
        ELSE SubSeq(chars,
                    CHOOSE i \in inked : \A k \in inked : i <= k,
                    CHOOSE i \in inked : \A k \in inked : i >= k)

\* needle in hay, on characters
Contains(needle, hay) ==
    \E k \in 0..(Len(hay) - Len(needle)) :
        \A i \in 1..Len(needle) : hay[k + i] = needle[i]

\* str.strip() of every city name of the model, computed once
StrippedTexts == [s \in CityTexts |-> TextOf(StripChars(CityChars(s)))] @@ <<>>

\* str.strip() on a city name (None is left to the caller)
Strip(s) == IF s \in CityTexts THEN StrippedTexts[s] ELSE s

\* normalize_city_name(city_name) for a non-empty text
normalized_city(city_name) ==
    LET stripped == StripChars(CityChars(city_name))
        lower == LowerSeq(stripped)
    IN  IF Contains(<<"d", "e", "l", "h", "i">>, lower) THEN "Delhi"
        ELSE IF Contains(<<"m", "u", "m", "b", "a", "i">>, lower) THEN "Mumbai"
        ELSE IF \/ Contains(<<"m", "e", "d", "c", "h", "a", "l">>, lower)
                \/ Contains(<<"m", "a", "l", "k", "a", "j", "g", "i", "r", "i">>, lower)
             THEN "Hyderabad"
        ELSE TextOf(stripped)

\* normalized_city of every city name of the model, computed once
NormalizedTexts == [s \in CityTexts |-> normalized_city(s)] @@ <<>>

normalize_city_name_CaseSensitive(city_name) ==
    IF ~Truthy(city_name) THEN Get(city_name)
    ELSE LET stripped == StripChars(CityChars(city_name))
         IN  IF Contains(<<"D", "e", "l", "h", "i">>, stripped) THEN "Delhi"
             ELSE IF Contains(<<"M", "u", "m", "b", "a", "i">>, stripped) THEN "Mumbai"
             ELSE IF \/ Contains(<<"M", "e", "d", "c", "h", "a", "l">>, stripped)
                     \/ Contains(<<"M", "a", "l", "k", "a", "j", "g", "i", "r", "i">>, stripped)
                  THEN "Hyderabad"
             ELSE TextOf(stripped)

\* normalize_city_name(city_name)
normalize_city_name(city_name) ==
    IF ~Truthy(city_name) THEN Get(city_name) ELSE NormalizedTexts[city_name]

dpd_bucket_mapping ==
    [b \in {"0", "0-30", "DPD 1-30", "31-60", "DPD 31-60", "61-90", "DPD 61-90",
            "91-120", "DPD 91-120", "121-150", "DPD 121-150", "151-180",
            "DPD 151-180", "181-365", "DPD 181-365", "365+", "DPD 365+", "No DPD"} |->
        CASE b = "0" -> "0 days DPD"
          [] b \in {"0-30", "DPD 1-30"} -> "DPD 1-30"
          [] b \in {"31-60", "DPD 31-60"} -> "DPD 31-60"
          [] b \in {"61-90", "DPD 61-90"} -> "DPD 61-90"
          [] b \in {"91-120", "DPD 91-120"} -> "DPD 91-120"
          [] b \in {"121-150", "DPD 121-150"} -> "DPD 121-150"
          [] b \in {"151-180", "DPD 151-180"} -> "DPD 151-180"
          [] b \in {"181-365", "DPD 181-365"} -> "DPD 181-365"
          [] b \in {"365+", "DPD 365+"} -> "DPD 365+"
          [] OTHER -> "No DPD"]

\* normalize_dpd_bucket(bucket)
normalize_dpd_bucket(bucket) ==
    IF ~Truthy(bucket) THEN Get(bucket)
    ELSE IF bucket \in DOMAIN dpd_bucket_mapping THEN dpd_bucket_mapping[bucket]
    ELSE bucket

-----------------------------------------------------------------------------
(* Records and requests                                                    *)

\* a well-formed upstream record; the input sets below vary its fields
BaseRecord ==
    [loan_no |-> "L1", pan |-> "PANX1",
     loan_amount |-> Num(1000), net_disbursal |-> Num(900),
     repayment_amount |-> Num(1200), total_received |-> Num(0),
     interest_amount |-> Num(200), processing_fee |-> Num(100),
     overdue_days |-> Num(0),
     reloan_status |-> "Freash", closed_status |-> "Not Closed",
     dpd_bucket |-> "0", state |-> "Maharashtra", city |-> "Pune",
     repayment_date |-> Stamp("Z", 10, 600, 0),
     disbursal_date |-> Stamp("Z", 1, 600, 0),
     last_received_date |-> NoStamp]

\* request.GET of a request without query parameters
NoFilter ==
    [date_from |-> NoDateParam, date_to |-> NoDateParam, date_type |-> "",
     closing_status |-> "", dpd |-> "", state |-> "", city |-> ""]

\* the date-range step of apply_fraud_filters
FilterByDate(recs, req) ==
    IF req.date_from.k = "none" \/ req.date_to.k = "none" THEN recs
    ELSE IF req.date_from.k = "bad" \/ req.date_to.k = "bad" THEN recs
    ELSE LET Field(r) == IF req.date_type = "disbursal_date"
                          THEN r.disbursal_date ELSE r.repayment_date
             Keep(r) == LET parsed_date == parse_datetime_safely(Field(r))
                        IN  /\ parsed_date.ok
                            /\ req.date_from.d <= parsed_date.day
                            /\ parsed_date.day <= req.date_to.d
         IN  SelectSeq(recs, Keep)

FilterByStatus_DpdFirst(recs, req) ==
    LET KeepClosing(r) == Get(r.closed_status) = req.closing_status
        KeepDpd(r) == Get(r.dpd_bucket) = req.dpd
    IN  IF req.dpd # "" THEN SelectSeq(recs, KeepDpd)
        ELSE IF req.closing_status # "" THEN SelectSeq(recs, KeepClosing) ELSE recs

\* the closing_status and dpd steps of apply_fraud_filters
FilterByStatus(recs, req) ==
    LET KeepClosing(r) == Get(r.closed_status) = req.closing_status
        KeepDpd(r) == Get(r.dpd_bucket) = req.dpd
        byClosing == IF req.closing_status # "" THEN SelectSeq(recs, KeepClosing) ELSE recs
    IN  IF req.dpd # "" THEN SelectSeq(byClosing, KeepDpd) ELSE byClosing

\* the records the city comparison of apply_fraud_filters is evaluated on
CityFilterInput(recs, req) ==
    LET KeepState(r) == Get(r.state) = req.state
        staged == FilterByStatus(FilterByDate(recs, req), req)
    IN  IF req.state # "" THEN SelectSeq(staged, KeepState) ELSE staged

\* r.get('city', '').strip() raises AttributeError on a null city
apply_fraud_filters_raises(recs, req) ==
    LET NullCity(r) == r.city = NoneS
    IN  req.city # "" /\ AnyRec(CityFilterInput(recs, req), NullCity)

apply_fraud_filters_Normalized(recs, req) ==
    LET KeepCity(r) == normalize_city_name(GetOr(r.city, "")) = normalize_city_name(req.city)
        staged == CityFilterInput(recs, req)
    IN  IF req.city # "" THEN SelectSeq(staged, KeepCity) ELSE staged

\* apply_fraud_filters(records, request)
apply_fraud_filters(recs, req) ==
    LET KeepCity(r) == Strip(GetOr(r.city, "")) = Strip(req.city)
        staged == CityFilterInput(recs, req)
    IN  IF req.city # "" THEN SelectSeq(staged, KeepCity) ELSE staged

-----------------------------------------------------------------------------
(* KPI calculator over fetched records (Predicate A)                       *)

\* the denominators of a division guarded by "if d > 0"
Guarded(d) == IF d > 0 THEN {d} ELSE {}

IsFreshA_OnlyFreash(r) == Get(r.reloan_status) = "Freash"

\* r.get('reloan_status') != 'Reloan'
IsFreshA(r) == Get(r.reloan_status) # "Reloan"

IsReloan_NotFreash(r) == Get(r.reloan_status) # "Freash"

\* r.get('reloan_status') == 'Reloan'
IsReloan(r) == Get(r.reloan_status) = "Reloan"
IsNotClosed(r) == Get(r.closed_status) = "Not Closed"

SafeLoanAmount(r) == safe_decimal_conversion(r.loan_amount)
SafeNetDisbursal(r) == safe_decimal_conversion(r.net_disbursal)
SafeRepaymentAmount(r) == safe_decimal_conversion(r.repayment_amount)
SafeTotalReceived(r) == safe_decimal_conversion(r.total_received)
SafeInterestAmount(r) == safe_decimal_conversion(r.interest_amount)
SafeProcessingFee(r) == safe_decimal_conversion(r.processing_fee)

CollectionRate_Truncated(collected_amount, repayment_amount) ==
    IF repayment_amount > 0
    THEN (10000 * collected_amount) \div repayment_amount
    ELSE 0

\* round((collected_amount / repayment_amount) * 100, 2) if repayment_amount > 0 else 0
CollectionRate(collected_amount, repayment_amount) ==
    IF repayment_amount > 0
    THEN RoundHalfEven(10000 * collected_amount, repayment_amount)
    ELSE 0

\* round(100 - collection_rate, 2) if collection_rate > 0 else 0
PendingPercentageA(collection_rate) ==
    IF collection_rate > 0 THEN 10000 - collection_rate ELSE 0

\* round(float((recoverable / sanction) * 100), 2) if sanction > 0 else 0
RecoveryPercentage(recoverable, sanction) ==
    IF sanction > 0 THEN RoundHalfEven(10000 * recoverable, sanction) ELSE 0

\* round((cases / total_applications) * 100, 2) if total_applications > 0 else 0
CasesPercentage(cases, total_applications) ==
    IF total_applications > 0 THEN RoundHalfEven(10000 * cases, total_applications) ELSE 0

\* sum(net_disbursal) - sum(total_received) over the 'Not Closed' records
PrincipalOutstanding(recs) ==
    LET not_closed_records == SelectSeq(recs, IsNotClosed)
    IN  SumBy(not_closed_records, SafeNetDisbursal) - SumBy(not_closed_records, SafeTotalReceived)

DpdExclusionDays == 90

ExclOver90_Below90(r) == IntOf(r.overdue_days) < DpdExclusionDays

\* records_excl_90_dpd = [r for r in records if int(r.get('overdue_days', 0)) <= 90]
ExclOver90(r) == IntOf(r.overdue_days) <= DpdExclusionDays

\* int(r.get('overdue_days', 0)) raises on a null or non-numeric value
calculate_kpi_from_records_raises(recs) ==
    LET BadDays(r) == IntOfRaises(r.overdue_days)
    IN  AnyRec(recs, BadDays)

\* the 90-day-exclusive recovery fields of calculate_kpi_from_records
\* (safe: with safe_decimal_conversion, as calculate_kpi_from_records does;
\* otherwise with Decimal(str(...)), as api_kpi_data does)
RecoveryFields(recs, safe) ==
    LET Loan(r) == IF safe THEN safe_decimal_conversion(r.loan_amount)
                   ELSE DecimalStr(r.loan_amount)
        Received(r) == IF safe THEN safe_decimal_conversion(r.total_received)
                       ELSE DecimalStr(r.total_received)
        Interest(r) == IF safe THEN safe_decimal_conversion(r.interest_amount)
                       ELSE DecimalStr(r.interest_amount)
        records_excl_90_dpd == SelectSeq(recs, ExclOver90)
        fresh_records_excl_90 == SelectSeq(records_excl_90_dpd, IsFreshA)
        reloan_records_excl_90 == SelectSeq(records_excl_90_dpd, IsReloan)
        Recoverable(rs) == SumBy(rs, Received) - SumBy(rs, Interest)
    IN  [recoverable_amount_excl_90 |-> Recoverable(records_excl_90_dpd),
         recovery_percentage_excl_90 |->
             RecoveryPercentage(Recoverable(records_excl_90_dpd), SumBy(records_excl_90_dpd, Loan)),
         fresh_recoverable_excl_90 |-> Recoverable(fresh_records_excl_90),
         fresh_recovery_percentage_excl_90 |->
             RecoveryPercentage(Recoverable(fresh_records_excl_90), SumBy(fresh_records_excl_90, Loan)),
         reloan_recoverable_excl_90 |-> Recoverable(reloan_records_excl_90),
         reloan_recovery_percentage_excl_90 |->
             RecoveryPercentage(Recoverable(reloan_records_excl_90), SumBy(reloan_records_excl_90, Loan)),
         divisors |-> Guarded(SumBy(records_excl_90_dpd, Loan))
                      \cup Guarded(SumBy(fresh_records_excl_90, Loan))
                      \cup Guarded(SumBy(reloan_records_excl_90, Loan))]

\* the dictionary calculate_kpi_from_records returns for an empty list
EmptyKpi ==
    [total_applications |-> 0, sanction_amount |-> 0, net_disbursal |-> 0,
     repayment_amount |-> 0, collected_amount |-> 0, pending_collection |-> 0,
     principal_outstanding |-> 0, collection_rate |-> 0, collected_percentage |-> 0,
     pending_percentage |-> 0, fresh_cases |-> 0, reloan_cases |-> 0,
     fresh_percentage |-> 0, reloan_percentage |-> 0,
     fresh_sanction_amount |-> 0, reloan_sanction_amount |-> 0,
     fresh_disbursed_amount |-> 0, reloan_disbursed_amount |-> 0,
     fresh_repayment_amount |-> 0, reloan_repayment_amount |-> 0,
     fresh_collected_amount |-> 0, reloan_collected_amount |-> 0,
     fresh_pending_amount |-> 0, reloan_pending_amount |-> 0,
     fresh_principal_outstanding |-> 0, reloan_principal_outstanding |-> 0,
     recoverable_amount_excl_90 |-> 0, recovery_percentage_excl_90 |-> 0,
     fresh_recoverable_excl_90 |-> 0, fresh_recovery_percentage_excl_90 |-> 0,
     reloan_recoverable_excl_90 |-> 0, reloan_recovery_percentage_excl_90 |-> 0]

\* calculate_kpi_from_records(records), when it does not raise
calculate_kpi_from_records(recs) ==
    IF Len(recs) = 0 THEN EmptyKpi
    ELSE
    LET total_applications == Len(recs)
        fresh_records == SelectSeq(recs, IsFreshA)
        reloan_records == SelectSeq(recs, IsReloan)
        repayment_amount == SumBy(recs, SafeRepaymentAmount)
        collected_amount == SumBy(recs, SafeTotalReceived)
        collection_rate == CollectionRate(collected_amount, repayment_amount)
        rec == RecoveryFields(recs, TRUE)
    IN  [total_applications |-> total_applications,
         sanction_amount |-> SumBy(recs, SafeLoanAmount),
         net_disbursal |-> SumBy(recs, SafeNetDisbursal),
         repayment_amount |-> repayment_amount,
         collected_amount |-> collected_amount,
         pending_collection |-> repayment_amount - collected_amount,
         principal_outstanding |-> PrincipalOutstanding(recs),
         collection_rate |-> collection_rate,
         collected_percentage |-> collection_rate,
         pending_percentage |-> PendingPercentageA(collection_rate),
         fresh_cases |-> Len(fresh_records),
         reloan_cases |-> Len(reloan_records),
         fresh_percentage |-> CasesPercentage(Len(fresh_records), total_applications),
         reloan_percentage |-> CasesPercentage(Len(reloan_records), total_applications),
         fresh_sanction_amount |-> SumBy(fresh_records, SafeLoanAmount),
         reloan_sanction_amount |-> SumBy(reloan_records, SafeLoanAmount),
         fresh_disbursed_amount |-> SumBy(fresh_records, SafeNetDisbursal),
         reloan_disbursed_amount |-> SumBy(reloan_records, SafeNetDisbursal),
         fresh_repayment_amount |-> SumBy(fresh_records, SafeRepaymentAmount),
         reloan_repayment_amount |-> SumBy(reloan_records, SafeRepaymentAmount),
         fresh_collected_amount |-> SumBy(fresh_records, SafeTotalReceived),
         reloan_collected_amount |-> SumBy(reloan_records, SafeTotalReceived),
         fresh_pending_amount |->
             SumBy(fresh_records, SafeRepaymentAmount) - SumBy(fresh_records, SafeTotalReceived),
         reloan_pending_amount |->
             SumBy(reloan_records, SafeRepaymentAmount) - SumBy(reloan_records, SafeTotalReceived),
         fresh_principal_outstanding |-> PrincipalOutstanding(fresh_records),
         reloan_principal_outstanding |-> PrincipalOutstanding(reloan_records),
         recoverable_amount_excl_90 |-> rec.recoverable_amount_excl_90,
         recovery_percentage_excl_90 |-> rec.recovery_percentage_excl_90,
         fresh_recoverable_excl_90 |-> rec.fresh_recoverable_excl_90,
         fresh_recovery_percentage_excl_90 |-> rec.fresh_recovery_percentage_excl_90,
         reloan_recoverable_excl_90 |-> rec.reloan_recoverable_excl_90,
         reloan_recovery_percentage_excl_90 |-> rec.reloan_recovery_percentage_excl_90]

\* the denominators calculate_kpi_from_records divides by
calculate_kpi_divisors(recs) ==
    IF Len(recs) = 0 THEN {}
    ELSE Guarded(Len(recs))
         \cup Guarded(SumBy(recs, SafeRepaymentAmount))
         \cup RecoveryFields(recs, TRUE).divisors

-----------------------------------------------------------------------------
(* KPI calculators with Predicate B                                        *)

RECURSIVE Gcd(_, _)
Gcd(a, b) == IF b = 0 THEN a ELSE Gcd(b, a % b)

\* an unrounded float quotient num/den (den > 0), held in lowest terms so that
\* equal quotients are equal values
Ratio(num, den) ==
    LET g == Gcd(IF num < 0 THEN -num ELSE num, den)
    IN  [num |-> num \div g, den |-> den \div g]

IsFreshB_NotReloan(r) == Get(r.reloan_status) # "Reloan"

\* record.get('reloan_status') == 'Freash'
IsFreshB(r) == Get(r.reloan_status) = "Freash"

DecLoanAmount(r) == DecimalStr(r.loan_amount)
DecNetDisbursal(r) == DecimalStr(r.net_disbursal)
DecRepaymentAmount(r) == DecimalStr(r.repayment_amount)
DecTotalReceived(r) == DecimalStr(r.total_received)
DecInterestAmount(r) == DecimalStr(r.interest_amount)
DecProcessingFee(r) == DecimalStr(r.processing_fee)

\* bucket_order of the filter options
bucket_order ==
    <<"0 days DPD", "DPD 1-30", "DPD 31-60", "DPD 61-90", "DPD 91-120",
      "DPD 121-150", "DPD 151-180", "DPD 181-365", "DPD 365+", "No DPD">>

\* record.get('city', '').strip() raises AttributeError on a null city
filter_options_raises(recs) ==
    LET NullCity(r) == r.city = NoneS
    IN  AnyRec(recs, NullCity)

\* the 'filter_options' object of the KPI endpoints
filter_options(recs) ==
    LET idx == 1..Len(recs)
        normalized_dpd_buckets ==
            {normalize_dpd_bucket(recs[i].dpd_bucket) : i \in {j \in idx : Truthy(recs[j].dpd_bucket)}}
        Present(b) == b \in normalized_dpd_buckets
    IN  [states |-> {recs[i].state : i \in {j \in idx : Truthy(recs[j].state)}},
         cities |-> {Strip(GetOr(recs[i].city, "")) : i \in idx} \ {""},
         closing_statuses |->
             {recs[i].closed_status : i \in {j \in idx : Truthy(recs[j].closed_status)}}
                 \ {"Active", "Closed"},
         dpd_buckets |-> SelectSeq(bucket_order, Present)]

\* Decimal(str(record.get(key, 0))) raises in api_fraud_kpi_data
fraud_kpi_raises(recs) ==
    LET Bad(r) == \/ DecimalStrRaises(r.loan_amount)
                  \/ DecimalStrRaises(r.net_disbursal)
                  \/ DecimalStrRaises(r.repayment_amount)
                  \/ DecimalStrRaises(r.total_received)
                  \/ DecimalStrRaises(r.processing_fee)
                  \/ DecimalStrRaises(r.interest_amount)
    IN  AnyRec(recs, Bad) \/ filter_options_raises(recs)

\* sum(net_disbursal) - sum(total_received) over the 'Not Closed' records
PrincipalOutstandingDec(recs) ==
    LET not_closed_records == SelectSeq(recs, IsNotClosed)
    IN  SumBy(not_closed_records, DecNetDisbursal) - SumBy(not_closed_records, DecTotalReceived)

\* the body api_fraud_kpi_data answers for an empty filtered list
EmptyFraudKpi ==
    [total_applications |-> 0, fresh_cases |-> 0, fresh_percentage |-> Ratio(0, 1),
     reloan_cases |-> 0, reloan_percentage |-> Ratio(0, 1),
     fresh_sanction_amount |-> 0, reloan_sanction_amount |-> 0,
     fresh_disbursed_amount |-> 0, reloan_disbursed_amount |-> 0,
     fresh_repayment_amount |-> 0, reloan_repayment_amount |-> 0,
     fresh_collected_amount |-> 0, reloan_collected_amount |-> 0,
     fresh_pending_amount |-> 0, reloan_pending_amount |-> 0,
     principal_outstanding |-> 0, fresh_principal_outstanding |-> 0,
     reloan_principal_outstanding |-> 0,
     sanction_amount |-> 0, disbursed_amount |-> 0, repayment_amount |-> 0,
     earning |-> 0, penalty |-> 0, collected_amount |-> 0,
     pending_collection |-> 0, collection_rate |-> 0]

\* the KPI body of api_fraud_kpi_data, when nothing raises
fraud_kpi(recs) ==
    IF Len(recs) = 0 THEN EmptyFraudKpi
    ELSE
    LET total_applications == Len(recs)
        fresh_records == SelectSeq(recs, IsFreshB)
        reloan_records == SelectSeq(recs, IsReloan)
        repayment_amount == SumBy(recs, DecRepaymentAmount)
        collected_amount == SumBy(recs, DecTotalReceived)
    IN  [total_applications |-> total_applications,
         fresh_cases |-> Len(fresh_records),
         fresh_percentage |-> Ratio(100 * Len(fresh_records), total_applications),
         reloan_cases |-> Len(reloan_records),
         reloan_percentage |-> Ratio(100 * Len(reloan_records), total_applications),
         fresh_sanction_amount |-> SumBy(fresh_records, DecLoanAmount),
         reloan_sanction_amount |-> SumBy(reloan_records, DecLoanAmount),
         fresh_disbursed_amount |-> SumBy(fresh_records, DecNetDisbursal),
         reloan_disbursed_amount |-> SumBy(reloan_records, DecNetDisbursal),
         fresh_repayment_amount |-> SumBy(fresh_records, DecRepaymentAmount),
         reloan_repayment_amount |-> SumBy(reloan_records, DecRepaymentAmount),
         fresh_collected_amount |-> SumBy(fresh_records, DecTotalReceived),
         reloan_collected_amount |-> SumBy(reloan_records, DecTotalReceived),
         fresh_pending_amount |->
             SumBy(fresh_records, DecRepaymentAmount) - SumBy(fresh_records, DecTotalReceived),
         reloan_pending_amount |->
             SumBy(reloan_records, DecRepaymentAmount) - SumBy(reloan_records, DecTotalReceived),
         principal_outstanding |-> PrincipalOutstandingDec(recs),
         fresh_principal_outstanding |-> PrincipalOutstandingDec(fresh_records),
         reloan_principal_outstanding |-> PrincipalOutstandingDec(reloan_records),
         sanction_amount |-> SumBy(recs, DecLoanAmount),
         disbursed_amount |-> SumBy(recs, DecNetDisbursal),
         repayment_amount |-> repayment_amount,
         earning |-> SumBy(recs, DecProcessingFee) + SumBy(recs, DecInterestAmount),
         penalty |-> 0,
         collected_amount |-> collected_amount,
         pending_collection |-> repayment_amount - collected_amount,
         collection_rate |-> CollectionRate(collected_amount, repayment_amount)]

\* the denominators api_fraud_kpi_data divides by
fraud_kpi_divisors(recs) ==
    IF Len(recs) = 0 THEN {}
    ELSE Guarded(Len(recs)) \cup Guarded(SumBy(recs, DecRepaymentAmount))

\* get_kpi_data(queryset); queryset.aggregate(Sum(field)) or Decimal('0') skips
\* the NULLs of a column, which is the sum of the safely converted values
get_kpi_data(queryset) ==
    LET total_applications == Len(queryset)
        fresh_queryset == SelectSeq(queryset, IsFreshB)
        reloan_queryset == SelectSeq(queryset, IsReloan)
        not_closed_queryset == SelectSeq(queryset, IsNotClosed)
        sanction_amount == SumBy(queryset, SafeLoanAmount)
        repayment_amount == SumBy(queryset, SafeRepaymentAmount)
        collected_amount == SumBy(queryset, SafeTotalReceived)
        Outstanding(rows) == SumBy(rows, SafeNetDisbursal) - SumBy(rows, SafeTotalReceived)
    IN  [total_applications |-> total_applications,
         fresh_cases |-> Len(fresh_queryset),
         fresh_percentage |->
             IF total_applications > 0
             THEN Ratio(100 * Len(fresh_queryset), total_applications) ELSE Ratio(0, 1),
         reloan_cases |-> Len(reloan_queryset),
         reloan_percentage |->
             IF total_applications > 0
             THEN Ratio(100 * Len(reloan_queryset), total_applications) ELSE Ratio(0, 1),
         fresh_sanction_amount |-> SumBy(fresh_queryset, SafeLoanAmount),
         reloan_sanction_amount |-> SumBy(reloan_queryset, SafeLoanAmount),
         fresh_disbursed_amount |-> SumBy(fresh_queryset, SafeNetDisbursal),
         reloan_disbursed_amount |-> SumBy(reloan_queryset, SafeNetDisbursal),
         fresh_repayment_amount |-> SumBy(fresh_queryset, SafeRepaymentAmount),
         reloan_repayment_amount |-> SumBy(reloan_queryset, SafeRepaymentAmount),
         fresh_collected_amount |-> SumBy(fresh_queryset, SafeTotalReceived),
         reloan_collected_amount |-> SumBy(reloan_queryset, SafeTotalReceived),
         fresh_pending_amount |->
             SumBy(fresh_queryset, SafeRepaymentAmount) - SumBy(fresh_queryset, SafeTotalReceived),
         reloan_pending_amount |->
             SumBy(reloan_queryset, SafeRepaymentAmount) - SumBy(reloan_queryset, SafeTotalReceived),
         principal_outstanding_amount |-> Outstanding(not_closed_queryset),
         fresh_principal_outstanding |-> Outstanding(SelectSeq(not_closed_queryset, IsFreshB)),
         reloan_principal_outstanding |-> Outstanding(SelectSeq(not_closed_queryset, IsReloan)),
         sanction_amount |-> sanction_amount,
         disbursed_amount |-> SumBy(queryset, SafeNetDisbursal),
         repayment_amount |-> repayment_amount,
         actual_repayment_amount |-> collected_amount,
         repayment_with_penalty |-> repayment_amount,
         earning |-> collected_amount - sanction_amount,
         penalty |-> repayment_amount - sanction_amount,
         collected_amount |-> collected_amount,
         collected_percentage |-> CollectionRate(collected_amount, repayment_amount),
         pending_collection |-> repayment_amount - collected_amount,
         pending_percentage |-> CollectionRate(repayment_amount - collected_amount, repayment_amount)]

\* the denominators get_kpi_data divides by
get_kpi_divisors(queryset) ==
    IF Len(queryset) = 0 THEN {}
    ELSE Guarded(Len(queryset)) \cup Guarded(SumBy(queryset, SafeRepaymentAmount))

-----------------------------------------------------------------------------
(* Handlers                                                                *)

\* every list of at most n records drawn from S
ListsUpTo(S, n) == UNION {[1..m -> S] : m \in 0..n}

NoResponse == [endpoint |-> "none", status |-> 0, computed |-> FALSE, body |-> <<>>]

\* JsonResponse({'error': ...}, status=500)
ErrorResponse(endpoint) ==
    [endpoint |-> endpoint, status |-> 500, computed |-> FALSE, body |-> <<>>]

OkResponse(endpoint, body) ==
    [endpoint |-> endpoint, status |-> 200, computed |-> TRUE, body |-> body]

\* the server is idle: no response is waiting to be sent
Idle == response = NoResponse

\* the server processes that call set_current_month_target
Workers == {"w1", "w2"}

\* a worker that is not inside set_current_month_target
NoCall == [pc |-> "idle", amount |-> 0, target |-> 0, created |-> FALSE, made |-> 0]

NoCalls == [w \in Workers |-> NoCall]

\* the database before anything is stored; clock counts the writes of the
\* synchronisation runs (auto_now), journal lists the committed writes to
\* MonthlyTarget in commit order
EmptyDatabase == [MonthlyTarget |-> <<>>, LoanRecord |-> <<>>, journal |-> <<>>, clock |-> 0]

Respond(req, resp, divs) ==
    /\ request' = req
    /\ response' = resp
    /\ divisors' = divs
    /\ UNCHANGED <<records, database, calls>>

\* the response leaves the view (wrapped_view returns it); the next request
\* finds the server idle
Deliver ==
    /\ ~Idle
    /\ request' = NoFilter
    /\ response' = NoResponse
    /\ divisors' = {}
    /\ UNCHANGED <<records, database, calls>>

\* the fallback KPI dictionary of dashboard_view
FallbackKpi ==
    [total_applications |-> 0, sanction_amount |-> 0, net_disbursal |-> 0,
     repayment_amount |-> 0, collected_amount |-> 0, pending_collection |-> 0,
     principal_outstanding |-> 0, collection_rate |-> 0, collected_percentage |-> 0,
     pending_percentage |-> 0, fresh_cases |-> 0, reloan_cases |-> 0,
     fresh_percentage |-> 0, reloan_percentage |-> 0,
     fresh_sanction_amount |-> 0, reloan_sanction_amount |-> 0,
     fresh_disbursed_amount |-> 0, reloan_disbursed_amount |-> 0,
     fresh_repayment_amount |-> 0, reloan_repayment_amount |-> 0,
     fresh_collected_amount |-> 0, reloan_collected_amount |-> 0,
     fresh_pending_amount |-> 0, reloan_pending_amount |-> 0,
     fresh_principal_outstanding |-> 0, reloan_principal_outstanding |-> 0]

\* dashboard_view(request): the 'kpis' entry of the rendered context
dashboard_view(req, fetch_ok) ==
    /\ Idle
    /\ LET filtered_records == apply_fraud_filters(records, req)
           failed == \/ ~fetch_ok
                     \/ apply_fraud_filters_raises(records, req)
                     \/ calculate_kpi_from_records_raises(filtered_records)
       IN  IF failed
           THEN Respond(req, [endpoint |-> "dashboard_view", status |-> 200,
                              computed |-> FALSE, body |-> FallbackKpi], {})
           ELSE Respond(req, OkResponse("dashboard_view",
                                        calculate_kpi_from_records(filtered_records)),
                        calculate_kpi_divisors(filtered_records))

\* Decimal(str(r.get(key, 0))) raises in the recovery block of api_kpi_data
api_kpi_data_raises(recs) ==
    LET Bad(r) == \/ DecimalStrRaises(r.loan_amount)
                  \/ DecimalStrRaises(r.total_received)
                  \/ DecimalStrRaises(r.interest_amount)
    IN  \/ calculate_kpi_from_records_raises(recs)
        \/ AnyRec(SelectSeq(recs, ExclOver90), Bad)
        \/ filter_options_raises(recs)

\* api_kpi_data(request)
api_kpi_data(req, fetch_ok) ==
    /\ Idle
    /\ LET filtered_records == apply_fraud_filters(records, req)
           failed == \/ ~fetch_ok
                     \/ apply_fraud_filters_raises(records, req)
                     \/ api_kpi_data_raises(filtered_records)
           kpi_data == calculate_kpi_from_records(filtered_records)
           rec == RecoveryFields(filtered_records, FALSE)
           data == [kpi_data EXCEPT
                       !.recoverable_amount_excl_90 = rec.recoverable_amount_excl_90,
                       !.recovery_percentage_excl_90 = rec.recovery_percentage_excl_90,
                       !.fresh_recoverable_excl_90 = rec.fresh_recoverable_excl_90,
                       !.fresh_recovery_percentage_excl_90 = rec.fresh_recovery_percentage_excl_90,
                       !.reloan_recoverable_excl_90 = rec.reloan_recoverable_excl_90,
                       !.reloan_recovery_percentage_excl_90 = rec.reloan_recovery_percentage_excl_90]
       IN  IF failed
           THEN Respond(req, ErrorResponse("api_kpi_data"), {})
           ELSE Respond(req,
                        OkResponse("api_kpi_data",
                                   [data |-> data,
                                    filter_options |-> filter_options(filtered_records)]),
                        calculate_kpi_divisors(filtered_records) \cup rec.divisors)

\* api_fraud_kpi_data(request)
api_fraud_kpi_data(req, fetch_ok) ==
    /\ Idle
    /\ LET filtered == apply_fraud_filters(records, req)
           failed == \/ ~fetch_ok
                     \/ apply_fraud_filters_raises(records, req)
                     \/ fraud_kpi_raises(filtered)
       IN  IF failed
           THEN Respond(req, ErrorResponse("api_fraud_kpi_data"), {})
           ELSE Respond(req,
                        OkResponse("api_fraud_kpi_data",
                                   [data |-> fraud_kpi(filtered),
                                    filter_options |->
                                        IF Len(filtered) = 0 THEN <<>>
                                        ELSE filter_options(filtered)]),
                        fraud_kpi_divisors(filtered))

\* get_kpi_data applied to the stored rows
get_kpi_data_call ==
    /\ Idle
    /\ Respond(NoFilter, OkResponse("get_kpi_data", get_kpi_data(records)),
               get_kpi_divisors(records))

-----------------------------------------------------------------------------
(* DPD-bucket distribution                                                 *)

\* the dpd_bucket labels of the model in the order of Python's string comparison
LabelOrder ==
    <<"0", "0 days DPD", "0-30", "31-60", "61-90", "91-120",
      "DPD 1-30", "DPD 31-60", "DPD 61-90", "No DPD", "Unknown">>

\* record.get('dpd_bucket', 'Unknown'): the key the record is grouped under
DpdGroupKey(r) == GetOr(r.dpd_bucket, "Unknown")

\* bucket_data after the grouping loop, as the set of its keys
DpdGroupKeys(recs) == {DpdGroupKey(recs[i]) : i \in 1..Len(recs)}

\* one entry of bucket_data after the grouping loop
DpdGroup(recs, key) ==
    LET InGroup(r) == DpdGroupKey(r) = key
        members == SelectSeq(recs, InGroup)
    IN  [dpd_bucket |-> key,
         count |-> Len(members),
         total_disbursal |-> SumBy(members, DecNetDisbursal),
         total_due |-> SumBy(members, DecRepaymentAmount)]

\* Decimal(str(...)) raises in the grouping loop, or result.sort compares a
\* None key with a text key
dpd_buckets_raises(recs) ==
    LET Bad(r) == DecimalStrRaises(r.net_disbursal) \/ DecimalStrRaises(r.repayment_amount)
    IN  \/ AnyRec(recs, Bad)
        \/ (NoneS \in DpdGroupKeys(recs) /\ Cardinality(DpdGroupKeys(recs)) > 1)

\* the groups sorted by bucket name: result.sort(key=lambda x: x['dpd_bucket'])
DpdBucketList(recs) ==
    LET keys == DpdGroupKeys(recs)
        Present(label) == label \in keys
        ordered == IF keys = {NoneS} THEN <<NoneS>> ELSE SelectSeq(LabelOrder, Present)
    IN  [i \in 1..Len(ordered) |-> DpdGroup(recs, ordered[i])]

\* api_dpd_buckets(request)
api_dpd_buckets(req, fetch_ok) ==
    /\ Idle
    /\ LET filtered_records == apply_fraud_filters(records, req)
           failed == \/ ~fetch_ok
                     \/ apply_fraud_filters_raises(records, req)
                     \/ dpd_buckets_raises(filtered_records)
           groups == DpdBucketList(filtered_records)
           result == [i \in 1..Len(groups) |->
                         [dpd_bucket |-> groups[i].dpd_bucket,
                          count |-> groups[i].count,
                          total_disbursal |-> groups[i].total_disbursal,
                          total_due |-> groups[i].total_due,
                          is_selected |-> req.dpd # "" /\ groups[i].dpd_bucket = req.dpd]]
       IN  IF failed
           THEN Respond(req, ErrorResponse("api_dpd_buckets"), {})
           ELSE Respond(req, OkResponse("api_dpd_buckets", [data |-> result]), {})

\* api_fraud_dpd_buckets(request)
api_fraud_dpd_buckets(req, fetch_ok) ==
    /\ Idle
    /\ LET filtered_records == apply_fraud_filters(records, req)
           failed == \/ ~fetch_ok
                     \/ apply_fraud_filters_raises(records, req)
                     \/ dpd_buckets_raises(filtered_records)
           groups == DpdBucketList(filtered_records)
           buckets == [i \in 1..Len(groups) |->
                          [bucket |-> groups[i].dpd_bucket,
                           count |-> groups[i].count,
                           total_disbursal |-> groups[i].total_disbursal,
                           total_due |-> groups[i].total_due]]
       IN  IF failed
           THEN Respond(req, ErrorResponse("api_fraud_dpd_buckets"), {})
           ELSE Respond(req, OkResponse("api_fraud_dpd_buckets", [buckets |-> buckets]), {})

-----------------------------------------------------------------------------
(* City rankings                                                           *)

MinCityLoans == 20
TopN == 10

\* normalize_city_name(record.get('city', 'Unknown')): the key of the record's group
CityKey(r) == normalize_city_name(GetOr(r.city, "Unknown"))

\* a sequence given by a rule, as the list of its values
List(seq) == seq \o <<>>

\* the distinct values of a list in the order of their first occurrence
FirstOccurrences(keys) ==
    LET IsFirst(i) == \A j \in 1..(i - 1) : keys[j] # keys[i]
        firsts == SelectSeq(List([i \in 1..Len(keys) |-> i]), IsFirst)
    IN  List([k \in 1..Len(firsts) |-> keys[firsts[k]]])

\* the groups of city_data for the keys of the records, in insertion order
\* (a dict keeps the order in which its keys were first set)
GroupByCity(recs, keys, order) ==
    List([j \in 1..Len(order) |->
            LET InGroup(i) == keys[i] = order[j]
                at == SelectSeq(List([i \in 1..Len(recs) |-> i]), InGroup)
                members == List([m \in 1..Len(at) |-> recs[at[m]]])
            IN  [city |-> order[j],
                 collected_amount |-> SumBy(members, DecTotalReceived),
                 repayment_amount |-> SumBy(members, DecRepaymentAmount),
                 total_applications |-> Len(members)]])

\* the insertion order of the keys of city_data
CityOrder(keys) == FirstOccurrences(keys)

\* list(city_data.values()) after the grouping loop
city_data(recs) ==
    LET keys == List([i \in 1..Len(recs) |-> CityKey(recs[i])])
    IN  GroupByCity(recs, keys, CityOrder(keys))

\* Decimal(str(...)) raises in the grouping loop
city_data_raises(recs) ==
    LET Bad(r) == DecimalStrRaises(r.total_received) \/ DecimalStrRaises(r.repayment_amount)
    IN  AnyRec(recs, Bad)

Qualifies_MoreThanMinimum(city_info) ==
    city_info.total_applications > MinCityLoans /\ city_info.repayment_amount > 0

\* the inclusion test of api_city_collected, api_city_uncollected and
\* api_fraud_city_uncollected
Qualifies(city_info) ==
    city_info.total_applications >= MinCityLoans /\ city_info.repayment_amount > 0

\* the inclusion test of api_fraud_city_collected
QualifiesFraudCollected(city_info) == city_info.total_applications >= MinCityLoans

\* float((collected_amount / repayment_amount) * 100), and the 0 that
\* api_fraud_city_collected keeps when repayment_amount is not positive
CollectionPercentage(city_info) ==
    IF city_info.repayment_amount > 0
    THEN Ratio(100 * city_info.collected_amount, city_info.repayment_amount)
    ELSE Ratio(0, 1)

\* a < b for two quotients with positive denominators
RatioLess(a, b) == a.num * b.den < b.num * a.den

\* list.sort(key=lambda x: x['collection_percentage'], reverse=...): a stable
\* sort, entries of equal percentage keep their order with and without reverse
SortByCollectionPercentage(list, reverse) ==
    LET n == Len(list)
        key == List([i \in 1..n |-> list[i].collection_percentage])
        Before(j, i) ==
            IF RatioLess(key[j], key[i]) THEN ~reverse
            ELSE IF RatioLess(key[i], key[j]) THEN reverse
            ELSE j < i
        rank(i) == Cardinality({j \in 1..n : j # i /\ Before(j, i)})
    IN  [k \in 1..n |-> list[CHOOSE i \in 1..n : rank(i) = k - 1]]

\* result[:10]
FirstTopN(list) == SubSeq(list, 1, IF Len(list) < TopN THEN Len(list) ELSE TopN)

\* the entry appended for an included city
CityEntry(city_info) ==
    [city |-> city_info.city,
     collected_amount |-> city_info.collected_amount,
     repayment_amount |-> city_info.repayment_amount,
     collection_percentage |-> CollectionPercentage(city_info),
     total_applications |-> city_info.total_applications]

\* the entry of the 'uncollected' endpoints, which adds uncollected_amount
CityEntryUncollected(city_info) ==
    [city |-> city_info.city,
     collected_amount |-> city_info.collected_amount,
     repayment_amount |-> city_info.repayment_amount,
     uncollected_amount |-> city_info.repayment_amount - city_info.collected_amount,
     collection_percentage |-> CollectionPercentage(city_info),
     total_applications |-> city_info.total_applications]

\* the ranking of the three endpoints that skip cities without repayment
CityRanking(recs, reverse, uncollected) ==
    LET included == SelectSeq(city_data(recs), Qualifies)
        result == List([i \in 1..Len(included) |->
                      IF uncollected THEN CityEntryUncollected(included[i])
                      ELSE CityEntry(included[i])])
    IN  FirstTopN(SortByCollectionPercentage(result, reverse))

\* the divisions a ranking performs: one per city whose percentage is a quotient
CityDivisors(recs) ==
    LET divided == SelectSeq(city_data(recs), Qualifies)
    IN  {divided[i].repayment_amount : i \in 1..Len(divided)}

\* api_city_collected(request)
api_city_collected(req, fetch_ok) ==
    /\ Idle
    /\ LET filtered_records == apply_fraud_filters(records, req)
           failed == \/ ~fetch_ok
                     \/ apply_fraud_filters_raises(records, req)
                     \/ city_data_raises(filtered_records)
       IN  IF failed
           THEN Respond(req, ErrorResponse("api_city_collected"), {})
           ELSE Respond(req,
                        OkResponse("api_city_collected",
                                   [data |-> CityRanking(filtered_records, TRUE, FALSE)]),
                        CityDivisors(filtered_records))

\* api_city_uncollected(request)
api_city_uncollected(req, fetch_ok) ==
    /\ Idle
    /\ LET filtered_records == apply_fraud_filters(records, req)
           failed == \/ ~fetch_ok
                     \/ apply_fraud_filters_raises(records, req)
                     \/ city_data_raises(filtered_records)
       IN  IF failed
           THEN Respond(req, ErrorResponse("api_city_uncollected"), {})
           ELSE Respond(req,
                        OkResponse("api_city_uncollected",
                                   [data |-> CityRanking(filtered_records, FALSE, TRUE)]),
                        CityDivisors(filtered_records))

\* api_fraud_city_collected(request)
api_fraud_city_collected(req, fetch_ok) ==
    /\ Idle
    /\ LET filtered_records == apply_fraud_filters(records, req)
           failed == \/ ~fetch_ok
                     \/ apply_fraud_filters_raises(records, req)
                     \/ city_data_raises(filtered_records)
           included == SelectSeq(city_data(filtered_records), QualifiesFraudCollected)
           cities == List([i \in 1..Len(included) |-> CityEntry(included[i])])
       IN  IF failed
           THEN Respond(req, ErrorResponse("api_fraud_city_collected"), {})
           ELSE Respond(req,
                        OkResponse("api_fraud_city_collected",
                                   [cities |-> FirstTopN(SortByCollectionPercentage(cities, TRUE))]),
                        CityDivisors(filtered_records))

\* api_fraud_city_uncollected(request)
api_fraud_city_uncollected(req, fetch_ok) ==
    /\ Idle
    /\ LET filtered_records == apply_fraud_filters(records, req)
           failed == \/ ~fetch_ok
                     \/ apply_fraud_filters_raises(records, req)
                     \/ city_data_raises(filtered_records)
       IN  IF failed
           THEN Respond(req, ErrorResponse("api_fraud_city_uncollected"), {})
           ELSE Respond(req,
                        OkResponse("api_fraud_city_uncollected",
                                   [cities |-> CityRanking(filtered_records, FALSE, TRUE)]),
                        CityDivisors(filtered_records))

-----------------------------------------------------------------------------
(* Pending cases by amount band                                            *)

Thousand == 1000

\* get_amount_bucket returned None
NoBucket == "<none>"

get_amount_bucket_InclusiveUpper(amount) ==
    IF amount <= 5 * Thousand THEN "<5k"
    ELSE IF amount <= 10 * Thousand THEN "5-10k"
    ELSE IF amount <= 20 * Thousand THEN "10-20k"
    ELSE IF amount <= 30 * Thousand THEN "20-30k"
    ELSE IF amount <= 40 * Thousand THEN "30-40k"
    ELSE IF amount <= 50 * Thousand THEN "40-50k"
    ELSE IF amount <= 60 * Thousand THEN "50-60k"
    ELSE IF amount <= 70 * Thousand THEN "60-70k"
    ELSE IF amount <= 80 * Thousand THEN "70-80k"
    ELSE IF amount <= 90 * Thousand THEN "80-90k"
    ELSE "90+k"

\* get_amount_bucket(amount); the amount, which the code holds in thousands
\* as a float, is given in rupees, so that 5 is 5 * Thousand
get_amount_bucket(amount) ==
    IF amount < 5 * Thousand THEN "<5k"
    ELSE IF 5 * Thousand <= amount /\ amount < 10 * Thousand THEN "5-10k"
    ELSE IF 10 * Thousand <= amount /\ amount < 20 * Thousand THEN "10-20k"
    ELSE IF 20 * Thousand <= amount /\ amount < 30 * Thousand THEN "20-30k"
    ELSE IF 30 * Thousand <= amount /\ amount < 40 * Thousand THEN "30-40k"
    ELSE IF 40 * Thousand <= amount /\ amount < 50 * Thousand THEN "40-50k"
    ELSE IF 50 * Thousand <= amount /\ amount < 60 * Thousand THEN "50-60k"
    ELSE IF 60 * Thousand <= amount /\ amount < 70 * Thousand THEN "60-70k"
    ELSE IF 70 * Thousand <= amount /\ amount < 80 * Thousand THEN "70-80k"
    ELSE IF 80 * Thousand <= amount /\ amount < 90 * Thousand THEN "80-90k"
    ELSE IF amount >= 90 * Thousand THEN "90+k"
    ELSE NoBucket

amount_bucket_order ==
    <<"<5k", "5-10k", "10-20k", "20-30k", "30-40k", "40-50k",
      "50-60k", "60-70k", "70-80k", "80-90k", "90+k">>

RecordBucket_NegativeSkipped(r) ==
    IF SafeRepaymentAmount(r) < 0 THEN NoBucket
    ELSE get_amount_bucket(SafeRepaymentAmount(r))

\* the band of a record: get_amount_bucket(float(max(repayment_amount, 0)) / 1000)
RecordBucket(r) ==
    LET repayment_amount == SafeRepaymentAmount(r)
        repayment_for_bucket == IF repayment_amount > 0 THEN repayment_amount ELSE 0
    IN  get_amount_bucket(repayment_for_bucket)

\* the record is processed: the loop does not 'continue' past it
InSomeBucket(r) ==
    RecordBucket(r) # NoBucket /\ \E i \in DOMAIN amount_bucket_order : amount_bucket_order[i] = RecordBucket(r)

\* pending_amount = repayment_amount - total_received, clamped at 0
PendingAmount(r) ==
    LET pending_amount == SafeRepaymentAmount(r) - SafeTotalReceived(r)
    IN  IF pending_amount < 0 THEN 0 ELSE pending_amount

\* record.get('closed_status', '') == 'Not Closed'
IsPendingCase(r) == GetOr(r.closed_status, "") = "Not Closed"

\* bucket_data[bucket] after the loop over the records, formatted for the result
BucketInfo(recs, bucket) ==
    LET InBucket(r) == InSomeBucket(r) /\ RecordBucket(r) = bucket
        members == SelectSeq(recs, InBucket)
        pending == SelectSeq(members, IsPendingCase)
        total_count == Len(members)
        pending_count == Len(pending)
        total_pending_amount == SumBy(pending, PendingAmount)
        total_repayment_amount == SumBy(members, SafeRepaymentAmount)
    IN  [bucket |-> bucket,
         count |-> pending_count,
         pending_count |-> pending_count,
         total_count |-> total_count,
         total_pending_amount |-> total_pending_amount,
         total_repayment_amount |-> total_repayment_amount,
         total_collected_amount |-> SumBy(members, SafeTotalReceived),
         pending_percentage_count |->
             IF total_count > 0 THEN Ratio(100 * pending_count, total_count) ELSE Ratio(0, 1),
         pending_percentage_amount |->
             IF total_repayment_amount > 0
             THEN Ratio(100 * total_pending_amount, total_repayment_amount) ELSE Ratio(0, 1)]

\* the denominators of the divisions the result loop performs
BucketDivisors(recs) ==
    LET processed == SelectSeq(recs, InSomeBucket)
        info == List([i \in 1..Len(amount_bucket_order) |->
                        BucketInfo(recs, amount_bucket_order[i])])
    IN  Guarded(Len(processed))
          \cup UNION {Guarded(info[i].total_count) \cup Guarded(info[i].total_repayment_amount)
                        : i \in 1..Len(info)}

\* api_fraud_pending_cases_by_amount(request)
api_fraud_pending_cases_by_amount(req, fetch_ok) ==
    /\ Idle
    /\ LET filtered_records == apply_fraud_filters(records, req)
           failed == ~fetch_ok \/ apply_fraud_filters_raises(records, req)
           processed == SelectSeq(filtered_records, InSomeBucket)
           result == List([i \in 1..Len(amount_bucket_order) |->
                             BucketInfo(filtered_records, amount_bucket_order[i])])
           overall_total_pending_amount ==
               SumBy(SelectSeq(processed, IsPendingCase), PendingAmount)
       IN  IF failed
           THEN Respond(req, ErrorResponse("api_fraud_pending_cases_by_amount"), {})
           ELSE IF Len(filtered_records) = 0
           THEN Respond(req,
                        OkResponse("api_fraud_pending_cases_by_amount", [buckets |-> <<>>]),
                        {})
           ELSE Respond(req,
                        OkResponse("api_fraud_pending_cases_by_amount",
                                   [buckets |-> result,
                                    overall_total_pending_amount |->
                                        overall_total_pending_amount]),
                        BucketDivisors(filtered_records))

-----------------------------------------------------------------------------
(* Specification of the KPI endpoints                                      *)

\* sum profiles of the input records: unpaid and over 90 days, fully paid,
\* partly paid at exactly 90 days, and nothing due with sparse fields
MoneyProfiles ==
    { [BaseRecord EXCEPT !.overdue_days = Num(DpdExclusionDays + 1)],
      [BaseRecord EXCEPT !.loan_amount = Num(2000), !.net_disbursal = Num(1800),
                         !.repayment_amount = Num(2400), !.total_received = Num(2400),
                         !.interest_amount = Num(400), !.closed_status = "Closed",
                         !.last_received_date = Stamp("Z", 9, 0, 0)],
      [BaseRecord EXCEPT !.loan_amount = Num(3000), !.net_disbursal = Num(2700),
                         !.repayment_amount = Num(3500), !.total_received = Num(1000),
                         !.interest_amount = Num(500), !.overdue_days = Num(90),
                         !.last_received_date = Stamp("Z", 9, 0, 0)],
      [BaseRecord EXCEPT !.loan_amount = Num(500), !.net_disbursal = MissingV,
                         !.repayment_amount = Num(0), !.processing_fee = MissingV,
                         !.closed_status = "Closed"],
      [BaseRecord EXCEPT !.net_disbursal = NullV, !.interest_amount = NullV] }

ReloanStatuses == {"Reloan", "Freash", "Unknown", MissingS}

KpiRecords ==
    {[m EXCEPT !.reloan_status = rs] : m \in MoneyProfiles, rs \in ReloanStatuses}

KpiRequests == {NoFilter, [NoFilter EXCEPT !.closing_status = "Not Closed"]}

Init ==
    /\ records \in ListsUpTo(KpiRecords, MaxRecords)
    /\ request = NoFilter
    /\ response = NoResponse
    /\ divisors = {}
    /\ database = EmptyDatabase
    /\ calls = NoCalls

Next ==
    \/ \E req \in KpiRequests, fetch_ok \in BOOLEAN : dashboard_view(req, fetch_ok)
    \/ \E req \in KpiRequests, fetch_ok \in BOOLEAN : api_kpi_data(req, fetch_ok)
    \/ \E req \in KpiRequests, fetch_ok \in BOOLEAN : api_fraud_kpi_data(req, fetch_ok)
    \/ get_kpi_data_call
    \/ Deliver

Spec == Init /\ [][Next]_vars

-----------------------------------------------------------------------------
(* Claims about the KPI calculators                                        *)

\* the records the handler of the current response computed on
Filtered == apply_fraud_filters(records, request)

\* the response carries a result of calculate_kpi_from_records
IsKpiA == response.computed /\ response.endpoint \in {"dashboard_view", "api_kpi_data"}
KpiA == IF response.endpoint = "dashboard_view" THEN response.body ELSE response.body.data

\* the response carries a result computed with Predicate B
IsKpiB == response.computed /\ response.endpoint \in {"api_fraud_kpi_data", "get_kpi_data"}
KpiB == IF response.endpoint = "get_kpi_data" THEN response.body ELSE response.body.data

CountWhere(recs, P(_)) == Cardinality({i \in 1..Len(recs) : P(recs[i])})
HasStatus(recs, st) == \E i \in 1..Len(recs) : recs[i].reloan_status = st
IsNeither(r) == Get(r.reloan_status) \notin {"Reloan", "Freash"}

\* C1: in calculate_kpi_from_records the fresh and the reloan figures add up to
\* the totals, for the case count and for the sanction, disbursed, repayment and
\* collected amounts, whatever the reloan_status values are.
C1_FreshPlusReloanA ==
    IsKpiA =>
        /\ KpiA.fresh_cases + KpiA.reloan_cases = KpiA.total_applications
        /\ KpiA.fresh_sanction_amount + KpiA.reloan_sanction_amount = KpiA.sanction_amount
        /\ KpiA.fresh_disbursed_amount + KpiA.reloan_disbursed_amount = KpiA.net_disbursal
        /\ KpiA.fresh_repayment_amount + KpiA.reloan_repayment_amount = KpiA.repayment_amount
        /\ KpiA.fresh_collected_amount + KpiA.reloan_collected_amount = KpiA.collected_amount

C1_Witness ==
    /\ IsKpiA
    /\ KpiA.total_applications = 2
    /\ HasStatus(Filtered, "Unknown")
    /\ HasStatus(Filtered, MissingS) \/ HasStatus(Filtered, "Reloan")
    /\ KpiA.sanction_amount > 0

\* C2 (as claimed): with Predicate B the fresh and the reloan figures add up to
\* the totals for every record set.
C2_FreshPlusReloanB ==
    IsKpiB =>
        /\ KpiB.fresh_cases + KpiB.reloan_cases = KpiB.total_applications
        /\ KpiB.fresh_sanction_amount + KpiB.reloan_sanction_amount = KpiB.sanction_amount
        /\ KpiB.fresh_disbursed_amount + KpiB.reloan_disbursed_amount = KpiB.disbursed_amount
        /\ KpiB.fresh_repayment_amount + KpiB.reloan_repayment_amount = KpiB.repayment_amount
        /\ KpiB.fresh_collected_amount + KpiB.reloan_collected_amount = KpiB.collected_amount

\* C2 (amended): with Predicate B the fresh figure, the reloan figure and the
\* figure of the records whose reloan_status is neither 'Freash' nor 'Reloan'
\* add up to the total; fresh + reloan equals the total when no such record
\* contributes.
C2_FreshReloanOtherB ==
    IsKpiB =>
        LET other == SelectSeq(Filtered, IsNeither)
        IN  /\ KpiB.fresh_cases + KpiB.reloan_cases + Len(other) = KpiB.total_applications
            /\ KpiB.fresh_sanction_amount + KpiB.reloan_sanction_amount
                   + SumBy(other, SafeLoanAmount) = KpiB.sanction_amount
            /\ KpiB.fresh_disbursed_amount + KpiB.reloan_disbursed_amount
                   + SumBy(other, SafeNetDisbursal) = KpiB.disbursed_amount
            /\ KpiB.fresh_repayment_amount + KpiB.reloan_repayment_amount
                   + SumBy(other, SafeRepaymentAmount) = KpiB.repayment_amount
            /\ KpiB.fresh_collected_amount + KpiB.reloan_collected_amount
                   + SumBy(other, SafeTotalReceived) = KpiB.collected_amount

C2_Witness ==
    /\ IsKpiB
    /\ response.endpoint = "api_fraud_kpi_data"
    /\ KpiB.total_applications = 2
    /\ HasStatus(Filtered, "Freash")
    /\ HasStatus(Filtered, "Unknown")
    /\ KpiB.fresh_sanction_amount + KpiB.reloan_sanction_amount < KpiB.sanction_amount

\* C3: a record whose reloan_status is neither 'Reloan' nor 'Freash' counts as
\* fresh (never as reloan) in calculate_kpi_from_records, counts in neither
\* bucket in api_fraud_kpi_data, and counts in total_applications in both.
C3_NeitherStatus ==
    LET StatusFreash(r) == Get(r.reloan_status) = "Freash"
        StatusReloan(r) == Get(r.reloan_status) = "Reloan"
        neither == CountWhere(Filtered, IsNeither)
        freash == CountWhere(Filtered, StatusFreash)
        reloan == CountWhere(Filtered, StatusReloan)
    IN  /\ IsKpiA =>
              /\ KpiA.fresh_cases = freash + neither
              /\ KpiA.reloan_cases = reloan
              /\ KpiA.total_applications = Len(Filtered)
        /\ (response.computed /\ response.endpoint = "api_fraud_kpi_data") =>
              /\ KpiB.fresh_cases = freash
              /\ KpiB.reloan_cases = reloan
              /\ KpiB.total_applications = Len(Filtered)

C3_Witness ==
    /\ response.computed
    /\ response.endpoint = "api_fraud_kpi_data"
    /\ HasStatus(Filtered, "Unknown")
    /\ KpiB.total_applications = 1
    /\ KpiB.fresh_cases = 0
    /\ KpiB.reloan_cases = 0

\* Variant A: net_disbursal over the records without last_received_date and
\* with total_received == 0
VariantA(recs) ==
    LET NoCollection(r) == /\ parse_datetime_safely(r.last_received_date) = NoDay
                           /\ SafeTotalReceived(r) = 0
    IN  SumBy(SelectSeq(recs, NoCollection), SafeNetDisbursal)

\* Variant B: sum(net_disbursal) - sum(total_received) over the 'Not Closed' records
VariantB(recs) ==
    LET NotClosed(r) == r.closed_status = "Not Closed"
    IN  SumBy(SelectSeq(recs, NotClosed), SafeNetDisbursal)
            - SumBy(SelectSeq(recs, NotClosed), SafeTotalReceived)

\* C4 (as claimed): the KPI result holds Variant A and Variant B of the
\* principal outstanding under two distinct field names.
C4_BothVariantsExposed ==
    IsKpiA =>
        \E fA, fB \in DOMAIN KpiA :
            /\ fA # fB
            /\ KpiA[fA] = VariantA(Filtered)
            /\ KpiA[fB] = VariantB(Filtered)

\* C5: collection_rate is 0 when the repayment sum is not positive, else
\* 100 * collected / repayment rounded to 2 decimals (within half a hundredth),
\* and every division is by a positive denominator.
C5_CollectionRate ==
    (IsKpiA \/ (response.computed /\ response.endpoint = "api_fraud_kpi_data")) =>
        LET k == IF IsKpiA THEN KpiA ELSE KpiB
            c == k.collected_amount
            r == k.repayment_amount
            rate == k.collection_rate
            diff == rate * r - 10000 * c
        IN  (c >= 0 /\ r >= 0) =>
              /\ r <= 0 => rate = 0
              /\ r > 0 => (2 * diff <= r /\ -2 * diff <= r)
              /\ \A d \in divisors : d > 0

C5_Witness ==
    /\ response.computed
    /\ response.endpoint = "api_fraud_kpi_data"
    /\ KpiB.repayment_amount > 0
    /\ KpiB.collected_amount > 0
    /\ (10000 * KpiB.collected_amount) % KpiB.repayment_amount # 0
    /\ KpiB.repayment_amount \in divisors

-----------------------------------------------------------------------------
(* Specification of the DPD-bucket endpoints                               *)

DpdLabels == {"0", "0-30", "DPD 1-30", "31-60", MissingS, NoneS}

DpdRecords ==
    {[BaseRecord EXCEPT !.dpd_bucket = b, !.net_disbursal = nd]
        : b \in DpdLabels, nd \in {Num(900), Num(1800), NullV}}

DpdRequests == {NoFilter, [NoFilter EXCEPT !.dpd = "DPD 1-30"]}

InitDpd ==
    /\ records \in ListsUpTo(DpdRecords, MaxRecords)
    /\ request = NoFilter
    /\ response = NoResponse
    /\ divisors = {}
    /\ database = EmptyDatabase
    /\ calls = NoCalls

NextDpd ==
    \/ \E req \in DpdRequests, fetch_ok \in BOOLEAN : api_dpd_buckets(req, fetch_ok)
    \/ \E req \in DpdRequests, fetch_ok \in BOOLEAN : api_fraud_dpd_buckets(req, fetch_ok)
    \/ Deliver

SpecDpd == InitDpd /\ [][NextDpd]_vars

IsDpdResponse ==
    response.computed /\ response.endpoint \in {"api_dpd_buckets", "api_fraud_dpd_buckets"}

\* the groups of the response: label, count and sums
DpdResponseGroups ==
    IF response.endpoint = "api_dpd_buckets"
    THEN {[label |-> response.body.data[i].dpd_bucket,
           count |-> response.body.data[i].count,
           total_disbursal |-> response.body.data[i].total_disbursal,
           total_due |-> response.body.data[i].total_due]
             : i \in 1..Len(response.body.data)}
    ELSE {[label |-> response.body.buckets[i].bucket,
           count |-> response.body.buckets[i].count,
           total_disbursal |-> response.body.buckets[i].total_disbursal,
           total_due |-> response.body.buckets[i].total_due]
             : i \in 1..Len(response.body.buckets)}

\* C6 (as claimed): the DPD-bucket distribution has one group per normalized
\* dpd_bucket label, whose count and sums are the totals over all the raw labels
\* that normalize to it ('0-30' and 'DPD 1-30' end up in one 'DPD 1-30' group).
C6_GroupedByNormalizedLabel ==
    IsDpdResponse =>
        LET NormKey(r) == normalize_dpd_bucket(DpdGroupKey(r))
            labels == {NormKey(Filtered[i]) : i \in 1..Len(Filtered)}
        IN  /\ {g.label : g \in DpdResponseGroups} = labels
            /\ \A g \in DpdResponseGroups :
                  LET Same(r) == NormKey(r) = g.label
                      members == SelectSeq(Filtered, Same)
                  IN  /\ g.count = Len(members)
                      /\ g.total_disbursal = SumBy(members, SafeNetDisbursal)
                      /\ g.total_due = SumBy(members, SafeRepaymentAmount)

-----------------------------------------------------------------------------
(* Specification of the city-ranking endpoints                             *)

MaxFillerCities == 10

\* cities that no normalization rule touches
FillerCityNames ==
    <<"Agra", "Bhopal", "Chennai", "Indore", "Jaipur", "Kanpur",
      "Kochi", "Lucknow", "Nagpur", "Patna", "Surat", "Vadodara">>

\* filler city k: exactly MinCityLoans loans of 1000 due each, of which a
\* share between 10% and 50% is received; several fillers share a percentage
FillerRecords(n) ==
    [i \in 1..(n * MinCityLoans) |->
        LET k == ((i - 1) \div MinCityLoans) + 1
        IN  [BaseRecord EXCEPT !.city = FillerCityNames[k],
                               !.repayment_amount = Num(1000),
                               !.total_received = Num(100 * (((k - 1) % 5) + 1))]]

\* the probed records: raw city names alternate between the two of a pair
ProbeRecords(pair, count, due, received_odd, received_even) ==
    [i \in 1..count |->
        [BaseRecord EXCEPT !.city = pair[2 - (i % 2)],
                           !.repayment_amount = due,
                           !.total_received = IF i % 2 = 1 THEN received_odd
                                              ELSE received_even]]

CityPairs == {<<"Mumbai", "Mumbai Suburban">>, <<"Delhi", "Medchal">>}

ProbeCounts == {MinCityLoans - 1, MinCityLoans, MinCityLoans + 1}

CityRequests == {NoFilter, [NoFilter EXCEPT !.city = "Mumbai"]}

InitCity ==
    /\ \E n \in {0, MaxFillerCities},
          pair \in CityPairs, count \in ProbeCounts,
          due \in {Num(0), Num(1000)},
          received_odd \in {Num(0), Num(1000)},
          received_even \in {Num(0), Num(1000), NullV},
          probe_first \in BOOLEAN :
            LET probe == ProbeRecords(pair, count, due, received_odd, received_even)
            IN  records = IF probe_first THEN probe \o FillerRecords(n)
                          ELSE FillerRecords(n) \o probe
    /\ request = NoFilter
    /\ response = NoResponse
    /\ divisors = {}
    /\ database = EmptyDatabase
    /\ calls = NoCalls

NextCity ==
    \/ \E req \in CityRequests, fetch_ok \in BOOLEAN : api_city_collected(req, fetch_ok)
    \/ \E req \in CityRequests, fetch_ok \in BOOLEAN : api_city_uncollected(req, fetch_ok)
    \/ \E req \in CityRequests, fetch_ok \in BOOLEAN : api_fraud_city_collected(req, fetch_ok)
    \/ \E req \in CityRequests, fetch_ok \in BOOLEAN : api_fraud_city_uncollected(req, fetch_ok)
    \/ Deliver

SpecCity == InitCity /\ [][NextCity]_vars

BestEndpoints == {"api_city_collected", "api_fraud_city_collected"}
WorstEndpoints == {"api_city_uncollected", "api_fraud_city_uncollected"}

IsCityResponse == response.computed /\ response.endpoint \in BestEndpoints \cup WorstEndpoints

\* the ranking of the response
CityEntries ==
    IF response.endpoint \in {"api_city_collected", "api_city_uncollected"}
    THEN response.body.data ELSE response.body.cities

\* the normalized city names of a list of records, and per name the number
\* of records and the sums of their amounts
CityNames(recs) == {CityKey(recs[i]) : i \in 1..Len(recs)}
CityCount(recs, name) == Cardinality({i \in 1..Len(recs) : CityKey(recs[i]) = name})
CityRepayment(recs, name) ==
    LET Of(r) == IF CityKey(r) = name THEN SafeRepaymentAmount(r) ELSE 0
    IN  SumBy(recs, Of)
CityCollected(recs, name) ==
    LET Of(r) == IF CityKey(r) = name THEN SafeTotalReceived(r) ELSE 0
    IN  SumBy(recs, Of)

\* per normalized city name of the filtered records: count and sums
CityFacts ==
    LET recs == Filtered
    IN  {[city |-> name,
          count |-> CityCount(recs, name),
          repayment |-> CityRepayment(recs, name),
          collected |-> CityCollected(recs, name)] : name \in CityNames(recs)}

C8_FirstTenOfQualifying ==
    IsCityResponse =>
        LET entries == CityEntries
            n == Len(entries)
            qualifying == {f \in CityFacts : f.count >= MinCityLoans /\ f.repayment > 0}
            Pct(f) == Ratio(100 * f.collected, f.repayment)
            Ahead(a, b) == IF response.endpoint \in BestEndpoints
                           THEN RatioLess(b, a) ELSE RatioLess(a, b)
            ranked == {entries[i].city : i \in 1..n}
        IN  /\ n = (IF Cardinality(qualifying) < TopN THEN Cardinality(qualifying) ELSE TopN)
            /\ Cardinality(ranked) = n
            /\ \A i \in 1..n :
                  /\ entries[i].repayment_amount > 0
                  /\ \E f \in qualifying :
                        /\ f.city = entries[i].city
                        /\ entries[i].collection_percentage = Pct(f)
            /\ \A i \in 1..n, j \in 1..n :
                  i < j => ~Ahead(entries[j].collection_percentage,
                                  entries[i].collection_percentage)
            /\ \A f \in qualifying : f.city \notin ranked =>
                  \A i \in 1..n : ~Ahead(Pct(f), entries[i].collection_percentage)

-----------------------------------------------------------------------------
(* Specification of the pending-cases-by-amount endpoint                   *)

\* the lower bound of every band, the last amount below two of them, a
\* negative amount and a null
BandAmounts ==
    {Num(-1000), Num(4999), Num(89999), NullV}
        \cup {Num(k * Thousand) : k \in {0, 5, 10, 20, 30, 40, 50, 60, 70, 80, 90}}

\* every amount on a 'Not Closed' loan, two of them also on a 'Closed' one
BandRecords ==
    {[BaseRecord EXCEPT !.repayment_amount = amount, !.total_received = Num(1000)]
        : amount \in BandAmounts}
      \cup {[BaseRecord EXCEPT !.repayment_amount = amount, !.total_received = Num(1000),
                               !.closed_status = "Closed"]
               : amount \in {Num(-1000), Num(5000)}}

BandRequests == {NoFilter, [NoFilter EXCEPT !.closing_status = "Not Closed"]}

InitBand ==
    /\ records \in ListsUpTo(BandRecords, MaxRecords)
    /\ request = NoFilter
    /\ response = NoResponse
    /\ divisors = {}
    /\ database = EmptyDatabase
    /\ calls = NoCalls

NextBand ==
    \/ \E req \in BandRequests, fetch_ok \in BOOLEAN :
          api_fraud_pending_cases_by_amount(req, fetch_ok)
    \/ Deliver

SpecBand == InitBand /\ [][NextBand]_vars

\* a computed response that lists the bands
IsBandResponse ==
    /\ response.computed
    /\ response.endpoint = "api_fraud_pending_cases_by_amount"
    /\ Len(response.body.buckets) > 0

Bands == response.body.buckets

\* the bands of the claim: band b holds the amounts from BandLowerK[b] thousand
\* (inclusive) up to the next band's lower bound (exclusive); the first band
\* has no lower and the last no upper bound
BandLowerK == <<0, 5, 10, 20, 30, 40, 50, 60, 70, 80, 90>>

InBand(amount, b) ==
    /\ (b = 1 \/ amount >= BandLowerK[b] * Thousand)
    /\ (b = Len(BandLowerK) \/ amount < BandLowerK[b + 1] * Thousand)

IsNegative(r) == SafeRepaymentAmount(r) < 0
IsNonNegative(r) == SafeRepaymentAmount(r) >= 0

-----------------------------------------------------------------------------
(* Specification of safe_decimal_conversion                                *)

DecimalTexts ==
    {"", "nan", "NaN", "NAN", "null", "NULL", "Null", "none", "None", "NONE",
     "0", "12", "-7", " 12 ", "1e2", "1E2", "007", "+5",
     "abc", "ABC", "12abc", "n/a"}

\* the values a record field is converted from
DecimalInputs ==
    {Num(n) : n \in -3..3} \cup {NullV, MissingV, GarbageV}
        \cup {TextV(t) : t \in DecimalTexts}

DecimalRecords == {[BaseRecord EXCEPT !.loan_amount = v] : v \in DecimalInputs}

\* safe_decimal_conversion(record.get('loan_amount')) for record in records
safe_decimal_conversion_call ==
    /\ Idle
    /\ Respond(NoFilter,
               OkResponse("safe_decimal_conversion",
                          List([i \in 1..Len(records) |->
                                   safe_decimal_conversion(records[i].loan_amount)])),
               {})

InitDecimal ==
    /\ records \in ListsUpTo(DecimalRecords, MaxRecords)
    /\ request = NoFilter
    /\ response = NoResponse
    /\ divisors = {}
    /\ database = EmptyDatabase
    /\ calls = NoCalls

NextDecimal ==
    \/ safe_decimal_conversion_call
    \/ Deliver

SpecDecimal == InitDecimal /\ [][NextDecimal]_vars

\* the spellings of 'nan', 'null' and 'none' among the texts of the model
ZeroSpellings == {"nan", "NaN", "NAN", "null", "NULL", "Null", "none", "None", "NONE"}

\* the decimal numbers the texts of the model spell
SpelledNumbers ==
    {<<"0", 0>>, <<"12", 12>>, <<"-7", -7>>, <<" 12 ", 12>>, <<"1e2", 100>>,
     <<"1E2", 100>>, <<"007", 7>>, <<"+5", 5>>}

\* C19: safe_decimal_conversion never raises; it gives zero for null, for the
\* empty string and for every spelling of 'nan', 'null' and 'none' in any
\* letter case; every other value gives the decimal number it spells, and zero
\* when it spells none.
C19_SafeDecimalTotal ==
    response.endpoint = "safe_decimal_conversion" =>
        /\ response.status = 200
        /\ Len(response.body) = Len(records)
        /\ \A i \in 1..Len(records) :
              LET v == records[i].loan_amount
                  out == response.body[i]
              IN  IF v.k \in {"null", "missing"} THEN out = 0
                  ELSE IF v.k = "num" THEN out = v.n
                  ELSE IF v.k = "str" THEN out = 0
                  ELSE IF v.s = "" \/ v.s \in ZeroSpellings THEN out = 0
                  ELSE IF \E p \in SpelledNumbers : p[1] = v.s
                       THEN <<v.s, out>> \in SpelledNumbers
                       ELSE out = 0

C19_Witness ==
    /\ response.endpoint = "safe_decimal_conversion"
    /\ Len(records) = 2
    /\ records[1].loan_amount = TextV("NaN")
    /\ records[2].loan_amount = TextV(" 12 ")
    /\ response.body = <<0, 12>>

-----------------------------------------------------------------------------
(* Detail lists: query parameters, search, sorting and slicing             *)

\* an integer query parameter: absent, an integer literal, or a text int() rejects
NoParam == [k |-> "none", n |-> 0]
IntParam(n) == [k |-> "int", n |-> n]
BadParam == [k |-> "bad", n |-> 0]

\* int(request.GET.get(name, default))
IntParamOr(p, default) == IF p.k = "int" THEN p.n ELSE default
IntParamRaises(p) == p.k = "bad"

\* the characters of the loan numbers, PANs and search texts of the model
Chars(s) ==
    CASE s = "" -> <<>>
      [] s = "L1" -> <<"L", "1">>
      [] s = "L2" -> <<"L", "2">>
      [] s = "L3" -> <<"L", "3">>
      [] s = "L12" -> <<"L", "1", "2">>
      [] s = "l1" -> <<"l", "1">>
      [] s = "PANX1" -> <<"P", "A", "N", "X", "1">>
      [] s = "x1" -> <<"x", "1">>
      [] s = "None" -> <<"N", "o", "n", "e">>
      [] s = "on" -> <<"o", "n">>
      [] OTHER -> <<s>>

\* str.lower(), as characters
LowerChars(s) == [i \in 1..Len(Chars(s)) |-> LowerChar(Chars(s)[i])]

\* (record.get(key, '') or '')
OrEmpty(s) == IF Truthy(s) THEN s ELSE ""

\* str(record.get(key, ''))
StrOf(s) == IF s = NoneS THEN "None" ELSE IF s = MissingS THEN "" ELSE s

\* the texts of the model in the order of Python's string comparison
TextOrder == <<"", "L1", "L12", "L2", "L3", "None", "PANX1">>
TextRank(s) == CHOOSE i \in 1..Len(TextOrder) : TextOrder[i] = s

\* the place of a timestamp text in the order of Python's string comparison:
\* by written day, then ' ' before 'T', then the written time, then the suffix
\* (none, '+00:00', '+05:30', 'Z'); an unparseable text comes after the digits
StampRank(ts) ==
    IF ts.kind = "bad" THEN 1000000
    ELSE LET sep == IF ts.kind = "date" THEN 0 ELSE 1
             suffix == CASE ts.kind = "Z" -> 3
                         [] ts.kind = "offset" -> (IF ts.off = 0 THEN 1 ELSE 2)
                         [] OTHER -> 0
         IN  ((ts.day * 2 + sep) * MinutesPerDay + ts.min) * 4 + suffix

\* list.sort(key=..., reverse=reverse) on the integer keys key[i]: stable, and
\* reverse keeps the original order of equal keys
StableSort(list, key, reverse) ==
    LET n == Len(list)
        Before(j, i) == \/ (IF reverse THEN key[j] > key[i] ELSE key[j] < key[i])
                        \/ key[j] = key[i] /\ j < i
        place == List([i \in 1..n |-> Cardinality({j \in 1..n : Before(j, i)}) + 1])
    IN  List([p \in 1..n |-> list[CHOOSE i \in 1..n : place[i] = p]])

\* list[start:end] with Python's treatment of negative and oversized indices
Slice(list, start, end) ==
    LET n == Len(list)
        Clip(i) == IF i < 0 THEN (IF n + i < 0 THEN 0 ELSE n + i)
                   ELSE IF i > n THEN n ELSE i
        lo == Clip(start)
        hi == Clip(end)
    IN  IF lo >= hi THEN <<>> ELSE SubSeq(list, lo + 1, hi)

CeilDiv_Floor(total_records, per_page) == total_records \div per_page

\* (total_records + per_page - 1) // per_page, per_page > 0
CeilDiv(total_records, per_page) == (total_records + per_page - 1) \div per_page

-----------------------------------------------------------------------------
(* Total-applications detail lists                                         *)

DefaultPerPage == 20

\* a response together with what became of requests.get in its handler: "none"
\* (not reached), "failed" (it raised) or "ok"
Upstream(resp, upstream) ==
    [endpoint |-> resp.endpoint, status |-> resp.status, computed |-> resp.computed,
     body |-> resp.body, upstream |-> upstream]

ErrorResponse400(endpoint) ==
    [endpoint |-> endpoint, status |-> 400, computed |-> FALSE, body |-> <<>>]

\* request.GET of a detail-list request without query parameters
NoDetailParams ==
    [date_from |-> NoDateParam, date_to |-> NoDateParam, date_type |-> "",
     closing_status |-> "", dpd |-> "", state |-> "", city |-> "",
     search |-> "", page |-> NoParam, per_page |-> NoParam,
     sort_by |-> "", sort_order |-> "", dpd_bucket |-> "",
     startDate |-> NoDateParam, endDate |-> NoDateParam,
     start_date |-> NoDateParam, end_date |-> NoDateParam]

\* the search step: search.lower() in (record.get(key, '') or '').lower()
details_search(recs, search) ==
    LET needle == LowerChars(search)
        Match(r) == \/ Contains(needle, LowerChars(OrEmpty(r.loan_no)))
                    \/ Contains(needle, LowerChars(OrEmpty(r.pan)))
    IN  IF search # "" THEN SelectSeq(recs, Match) ELSE recs

\* request.GET.get('sort_by', 'disbursal_date')
DetailsSortBy(req) == IF req.sort_by = "" THEN "disbursal_date" ELSE req.sort_by

\* sort_by in filtered_records[0], for the sort fields of the model (loan_no,
\* pan, disbursal_date and a name no record has)
HasKey(r, field) ==
    CASE field = "loan_no" -> r.loan_no # MissingS
      [] field = "pan" -> r.pan # MissingS
      [] field = "disbursal_date" -> r.disbursal_date.kind # "missing"
      [] OTHER -> FALSE

\* x.get(sort_by, ''): None, or a text with its place in the string order
DetailsSortKey(r, field) ==
    LET TextKey(s) == IF s = NoneS THEN [none |-> TRUE, ord |-> 0]
                      ELSE [none |-> FALSE, ord |-> TextRank(GetOr(s, ""))]
    IN  CASE field = "loan_no" -> TextKey(r.loan_no)
          [] field = "pan" -> TextKey(r.pan)
          [] OTHER -> IF r.disbursal_date.kind = "null" THEN [none |-> TRUE, ord |-> 0]
                      ELSE IF r.disbursal_date.kind = "missing" THEN [none |-> FALSE, ord |-> 0]
                      ELSE [none |-> FALSE, ord |-> StampRank(r.disbursal_date)]

\* the sort is applied when the first record has the key
DetailsSortApplies(recs, req) == Len(recs) > 0 /\ HasKey(recs[1], DetailsSortBy(req))

\* comparing None with a text or with None raises TypeError
details_sort_raises(recs, req) ==
    LET IsNone(r) == DetailsSortKey(r, DetailsSortBy(req)).none
    IN  DetailsSortApplies(recs, req) /\ Len(recs) >= 2 /\ AnyRec(recs, IsNone)

\* filtered_records.sort(key=lambda x: x.get(sort_by, ''), reverse=reverse)
details_sorted(recs, req) ==
    LET key == List([i \in 1..Len(recs) |-> DetailsSortKey(recs[i], DetailsSortBy(req)).ord])
    IN  IF DetailsSortApplies(recs, req)
        THEN StableSort(recs, key, req.sort_order \in {"", "desc"})
        ELSE recs

\* the totals over the filtered and searched records
details_totals(recs) ==
    [total_loan_amount |-> SumBy(recs, SafeLoanAmount),
     total_net_disbursal |-> SumBy(recs, SafeNetDisbursal),
     total_repayment_amount |-> SumBy(recs, SafeRepaymentAmount),
     total_processing_fee |-> SumBy(recs, SafeProcessingFee),
     total_interest_amount |-> SumBy(recs, SafeInterestAmount),
     total_received |-> SumBy(recs, SafeTotalReceived)]

ZeroTotals ==
    [total_loan_amount |-> 0, total_net_disbursal |-> 0, total_repayment_amount |-> 0,
     total_processing_fee |-> 0, total_interest_amount |-> 0, total_received |-> 0]

\* parse_datetime_safely(value).strftime('%d/%m/%Y') if value else '':
\* the formatted day, NoDay for ''
DetailsDate(ts) ==
    IF ts.kind \in {"null", "missing"} THEN NoDay ELSE parse_datetime_safely(ts)

\* .strftime on the None parse_datetime_safely returns raises AttributeError
details_format_raises(r) ==
    \E ts \in {r.disbursal_date, r.repayment_date, r.last_received_date} :
        ts.kind \notin {"null", "missing"} /\ ~parse_datetime_safely(ts).ok

details_format(r) ==
    [loan_no |-> GetOr(r.loan_no, ""),
     disbursal_date |-> DetailsDate(r.disbursal_date),
     loan_amount |-> SafeLoanAmount(r),
     net_disbursal |-> SafeNetDisbursal(r),
     repayment_date |-> DetailsDate(r.repayment_date),
     repayment_amount |-> SafeRepaymentAmount(r),
     processing_fee |-> SafeProcessingFee(r),
     interest_amount |-> SafeInterestAmount(r),
     last_received_date |-> DetailsDate(r.last_received_date),
     total_received |-> SafeTotalReceived(r),
     closed_status |-> GetOr(r.closed_status, "")]

\* the response of the except branch
DetailsErrorResponse(endpoint, per_page) ==
    [endpoint |-> endpoint, status |-> 500, computed |-> FALSE,
     body |-> [records |-> <<>>,
               pagination |-> [current_page |-> 1, total_pages |-> 0,
                               total_records |-> 0, per_page |-> per_page,
                               has_next |-> FALSE, has_previous |-> FALSE],
               totals |-> ZeroTotals]]

\* the response of api_total_applications_details and of
\* api_fraud_total_applications_details
total_applications_details(endpoint, recs, req, fetch_ok) ==
    LET page == IntParamOr(req.page, 1)
        per_page == IntParamOr(req.per_page, DefaultPerPage)
        searched == details_search(apply_fraud_filters(recs, req), req.search)
        filtered_records == details_sorted(searched, req)
        total_records == Len(filtered_records)
        start_index == (page - 1) * per_page
        paginated_records == Slice(filtered_records, start_index, start_index + per_page)
        total_pages == CeilDiv(total_records, per_page)
        failed == \/ apply_fraud_filters_raises(recs, req)
                  \/ details_sort_raises(searched, req)
                  \/ AnyRec(paginated_records, details_format_raises)
                  \/ per_page = 0
    IN  IF IntParamRaises(req.page) \/ IntParamRaises(req.per_page)
        THEN Upstream(ErrorResponse(endpoint), "none")
        ELSE IF ~fetch_ok
        THEN Upstream(DetailsErrorResponse(endpoint, per_page), "failed")
        ELSE IF failed
        THEN Upstream(DetailsErrorResponse(endpoint, per_page), "ok")
        ELSE Upstream(OkResponse(endpoint,
                         [records |-> List([i \in 1..Len(paginated_records) |->
                                               details_format(paginated_records[i])]),
                          pagination |-> [current_page |-> page,
                                          total_pages |-> total_pages,
                                          total_records |-> total_records,
                                          per_page |-> per_page,
                                          has_next |-> page < total_pages,
                                          has_previous |-> page > 1],
                          totals |-> details_totals(filtered_records)]), "ok")

\* the denominator of the page count
PageDivisors(resp) == IF resp.computed THEN {resp.body.pagination.per_page} ELSE {}

\* api_total_applications_details(request)
api_total_applications_details(req, fetch_ok) ==
    /\ Idle
    /\ LET resp == total_applications_details("api_total_applications_details",
                                              records, req, fetch_ok)
       IN  Respond(req, resp, PageDivisors(resp))

\* api_fraud_total_applications_details(request)
api_fraud_total_applications_details(req, fetch_ok) ==
    /\ Idle
    /\ LET resp == total_applications_details("api_fraud_total_applications_details",
                                              records, req, fetch_ok)
       IN  Respond(req, resp, PageDivisors(resp))

-----------------------------------------------------------------------------
(* DPD-bucket detail list                                                  *)

\* JsonResponse({'error': ...}, status=400) of a request without a required
\* parameter
RejectResponse(endpoint) == Upstream(ErrorResponse400(endpoint), "none")

\* float(record.get(key, 0)) accepts and rejects what Decimal(str(...)) does on
\* the values of the model
FloatOf(v) == DecimalStr(v)
FloatOfRaises(v) == DecimalStrRaises(v)

\* the dpd_bucket and search steps of api_dpd_bucket_details
bucket_filtered_records(recs, req) ==
    LET needle == LowerChars(req.search)
        InBucket(r) == Get(r.dpd_bucket) = req.dpd_bucket
        Match(r) == \/ Contains(needle, LowerChars(StrOf(r.loan_no)))
                    \/ Contains(needle, LowerChars(StrOf(r.pan)))
        in_bucket == SelectSeq(recs, InBucket)
    IN  IF req.search # "" THEN SelectSeq(in_bucket, Match) ELSE in_bucket

\* request.GET.get('sort_by', 'overdue_days')
BucketSortBy(req) == IF req.sort_by = "" THEN "overdue_days" ELSE req.sort_by

BucketSortFields == {"overdue_days", "net_disbursal", "repayment_amount", "loan_no"}

\* the key functions of the four sort branches
BucketSortKey(r, field) ==
    CASE field = "overdue_days" -> IntOf(r.overdue_days)
      [] field = "net_disbursal" -> FloatOf(r.net_disbursal)
      [] field = "repayment_amount" -> FloatOf(r.repayment_amount)
      [] OTHER -> TextRank(StrOf(r.loan_no))

bucket_sort_raises(recs, req) ==
    LET BadKey(r) ==
            CASE BucketSortBy(req) = "overdue_days" -> IntOfRaises(r.overdue_days)
              [] BucketSortBy(req) = "net_disbursal" -> FloatOfRaises(r.net_disbursal)
              [] BucketSortBy(req) = "repayment_amount" -> FloatOfRaises(r.repayment_amount)
              [] OTHER -> FALSE
    IN  AnyRec(recs, BadKey)

bucket_sorted(recs, req) ==
    LET key == List([i \in 1..Len(recs) |-> BucketSortKey(recs[i], BucketSortBy(req))])
    IN  IF BucketSortBy(req) \in BucketSortFields
        THEN StableSort(recs, key, req.sort_order \in {"", "desc"})
        ELSE recs

\* Decimal(str(r.get(key, 0))) in the totals raises on null and on garbage
bucket_totals_raises(recs) ==
    LET Bad(r) == DecimalStrRaises(r.net_disbursal) \/ DecimalStrRaises(r.repayment_amount)
    IN  AnyRec(recs, Bad)

bucket_totals(recs) ==
    [total_net_disbursal |-> SumBy(recs, DecNetDisbursal),
     total_repayment_amount |-> SumBy(recs, DecRepaymentAmount)]

\* float(...) and int(...) in the formatting of a page record
bucket_format_raises(r) ==
    \/ FloatOfRaises(r.net_disbursal)
    \/ FloatOfRaises(r.repayment_amount)
    \/ IntOfRaises(r.overdue_days)

bucket_format(r) ==
    [loan_no |-> GetOr(r.loan_no, ""),
     disbursal_date |-> parse_datetime_safely(r.disbursal_date),
     net_disbursal |-> FloatOf(r.net_disbursal),
     repayment_date |-> parse_datetime_safely(r.repayment_date),
     repayment_amount |-> FloatOf(r.repayment_amount),
     overdue_days |-> IntOf(r.overdue_days),
     dpd_bucket |-> GetOr(r.dpd_bucket, "")]

\* the response of api_dpd_bucket_details
dpd_bucket_details(recs, req, fetch_ok) ==
    LET endpoint == "api_dpd_bucket_details"
        page == IntParamOr(req.page, 1)
        per_page == IntParamOr(req.per_page, DefaultPerPage)
        searched == bucket_filtered_records(apply_fraud_filters(recs, req), req)
        sorted == bucket_sorted(searched, req)
        total_records == Len(sorted)
        total_pages == IF total_records > 0 THEN CeilDiv(total_records, per_page) ELSE 1
        start_idx == (page - 1) * per_page
        page_records == Slice(sorted, start_idx, start_idx + per_page)
        failed == \/ apply_fraud_filters_raises(recs, req)
                  \/ bucket_totals_raises(searched)
                  \/ bucket_sort_raises(searched, req)
                  \/ total_records > 0 /\ per_page = 0
                  \/ AnyRec(page_records, bucket_format_raises)
    IN  IF IntParamRaises(req.page) \/ IntParamRaises(req.per_page)
        THEN Upstream(ErrorResponse(endpoint), "none")
        ELSE IF req.dpd_bucket = ""
        THEN RejectResponse(endpoint)
        ELSE IF ~fetch_ok
        THEN Upstream(ErrorResponse(endpoint), "failed")
        ELSE IF failed
        THEN Upstream(ErrorResponse(endpoint), "ok")
        ELSE Upstream(OkResponse(endpoint,
                        [records |-> List([i \in 1..Len(page_records) |->
                                              bucket_format(page_records[i])]),
                         pagination |-> [current_page |-> page,
                                         total_pages |-> total_pages,
                                         total_records |-> total_records,
                                         per_page |-> per_page,
                                         has_next |-> page < total_pages,
                                         has_previous |-> page > 1],
                         totals |-> bucket_totals(sorted)]), "ok")

\* api_dpd_bucket_details(request)
api_dpd_bucket_details(req, fetch_ok) ==
    /\ Idle
    /\ LET resp == dpd_bucket_details(records, req, fetch_ok)
       IN  Respond(req, resp,
                   IF resp.computed /\ resp.body.pagination.total_records > 0
                   THEN {resp.body.pagination.per_page} ELSE {})

-----------------------------------------------------------------------------
(* Endpoints with required start and end dates                             *)

\* request.GET.get('startDate') or request.GET.get('start_date')
EitherParam(camel, snake) == IF camel.k # "none" THEN camel ELSE snake

\* JsonResponse({'error': ...}, status=502)
BadGateway(endpoint) ==
    [endpoint |-> endpoint, status |-> 502, computed |-> FALSE, body |-> <<>>,
     upstream |-> "failed"]

\* the body of api_credit_person_wise and of api_not_closed_percent; the
\* upstream payload's 'data' is the record list
proxy_start_end(endpoint, req, fetch_ok) ==
    LET start_date == EitherParam(req.startDate, req.start_date)
        end_date == EitherParam(req.endDate, req.end_date)
    IN  IF start_date.k = "none" \/ end_date.k = "none"
        THEN Respond(req, RejectResponse(endpoint), {})
        ELSE IF ~fetch_ok
        THEN Respond(req, BadGateway(endpoint), {})
        ELSE Respond(req, Upstream(OkResponse(endpoint, [data |-> records]), "ok"), {})

\* api_credit_person_wise(request)
api_credit_person_wise(req, fetch_ok) ==
    /\ Idle
    /\ proxy_start_end("api_credit_person_wise", req, fetch_ok)

\* api_not_closed_percent(request)
api_not_closed_percent(req, fetch_ok) ==
    /\ Idle
    /\ proxy_start_end("api_not_closed_percent", req, fetch_ok)

\* api_loan_count_wise(request); the upstream payload's count_wise is the
\* record list
api_loan_count_wise(req, fetch_ok) ==
    /\ Idle
    /\ LET endpoint == "api_loan_count_wise"
       IN  IF req.startDate.k = "none" \/ req.endDate.k = "none"
           THEN Respond(req,
                        [endpoint |-> endpoint, status |-> 400, computed |-> FALSE,
                         body |-> [count_wise |-> <<>>, amount_wise |-> <<>>],
                         upstream |-> "none"], {})
           ELSE IF ~fetch_ok
           THEN Respond(req,
                        [endpoint |-> endpoint, status |-> 500, computed |-> FALSE,
                         body |-> [count_wise |-> <<>>, amount_wise |-> <<>>],
                         upstream |-> "failed"], {})
           ELSE Respond(req,
                        Upstream(OkResponse(endpoint,
                                            [count_wise |-> records, amount_wise |-> <<>>]),
                                 "ok"), {})

SummaryPerPage == 10

\* the date-range, state and city filters of api_disbursal_summary
summary_filtered(recs, req) ==
    LET InRange(r) == LET parsed_date == parse_datetime_safely(r.disbursal_date)
                      IN  /\ parsed_date.ok
                          /\ req.startDate.d <= parsed_date.day
                          /\ parsed_date.day <= req.endDate.d
        KeepState(r) == Get(r.state) = req.state
        KeepCity(r) == Strip(GetOr(r.city, "")) = Strip(req.city)
        dated == SelectSeq(recs, InRange)
        in_state == IF req.state # "" THEN SelectSeq(dated, KeepState) ELSE dated
    IN  IF req.city # "" THEN SelectSeq(in_state, KeepCity) ELSE in_state

\* r.get('city', '').strip() raises AttributeError on a null city
summary_raises(recs, req) ==
    LET InRange(r) == LET parsed_date == parse_datetime_safely(r.disbursal_date)
                      IN  /\ parsed_date.ok
                          /\ req.startDate.d <= parsed_date.day
                          /\ parsed_date.day <= req.endDate.d
        KeepState(r) == Get(r.state) = req.state
        NullCity(r) == r.city = NoneS
        dated == SelectSeq(recs, InRange)
        in_state == IF req.state # "" THEN SelectSeq(dated, KeepState) ELSE dated
    IN  req.city # "" /\ AnyRec(in_state, NullCity)

\* the page of api_disbursal_summary: an unreadable page or one below 1 is 1,
\* one above total_pages is total_pages
summary_page(req, total_pages) ==
    LET asked == IF req.page.k = "int" /\ req.page.n >= 1 THEN req.page.n ELSE 1
    IN  IF asked > total_pages /\ total_pages > 0 THEN total_pages ELSE asked

\* the response of api_disbursal_summary; the upstream payload's 'result' is
\* the record list
disbursal_summary(recs, req, fetch_ok) ==
    LET endpoint == "api_disbursal_summary"
        filtered_records == summary_filtered(recs, req)
        total_records == Len(filtered_records)
        per_page == SummaryPerPage
        total_pages == IF total_records > 0 THEN CeilDiv(total_records, per_page) ELSE 1
        page == summary_page(req, total_pages)
        start_idx == (page - 1) * per_page
        paginated_records == Slice(filtered_records, start_idx, start_idx + per_page)
    IN  IF req.startDate.k = "none" \/ req.endDate.k = "none"
        THEN RejectResponse(endpoint)
        ELSE IF req.startDate.k = "bad" \/ req.endDate.k = "bad"
        THEN RejectResponse(endpoint)
        ELSE IF ~fetch_ok
        THEN Upstream(ErrorResponse(endpoint), "failed")
        ELSE IF summary_raises(recs, req)
        THEN Upstream(ErrorResponse(endpoint), "ok")
        ELSE Upstream(OkResponse(endpoint,
                        [records |-> paginated_records,
                         summary |-> [total_records |-> total_records,
                                      total_loan_amount |-> SumBy(filtered_records, SafeLoanAmount),
                                      total_repayment_amount |->
                                          SumBy(filtered_records, SafeRepaymentAmount),
                                      total_processing_fee |->
                                          SumBy(filtered_records, SafeProcessingFee),
                                      total_interest_amount |->
                                          SumBy(filtered_records, SafeInterestAmount)],
                         pagination |-> [current_page |-> page,
                                         total_pages |-> total_pages,
                                         total_records |-> total_records,
                                         per_page |-> per_page,
                                         has_next |-> page < total_pages,
                                         has_previous |-> page > 1]]), "ok")

\* api_disbursal_summary(request)
api_disbursal_summary(req, fetch_ok) ==
    /\ Idle
    /\ LET resp == disbursal_summary(records, req, fetch_ok)
       IN  Respond(req, resp,
                   IF resp.computed /\ resp.body.pagination.total_records > 0
                   THEN {resp.body.pagination.per_page} ELSE {})

-----------------------------------------------------------------------------
(* Specification of the detail-list and required-parameter endpoints       *)

\* a clean record; a second clean one; one whose disbursal_date cannot be
\* parsed; one without PAN and with a null overdue_days
DetailRecords ==
    { BaseRecord,
      [BaseRecord EXCEPT !.loan_no = "L2", !.loan_amount = Num(2000),
                         !.net_disbursal = Num(1800), !.repayment_amount = Num(2400),
                         !.overdue_days = Num(5),
                         !.disbursal_date = Stamp("Z", 3, 600, 0)],
      [BaseRecord EXCEPT !.loan_no = "L12", !.loan_amount = Num(3000),
                         !.disbursal_date = Stamp("bad", 0, 0, 0)],
      [BaseRecord EXCEPT !.loan_no = "L3", !.pan = NoneS, !.loan_amount = Num(500),
                         !.overdue_days = NullV,
                         !.disbursal_date = Stamp("naive", 2, 600, 0)] }

\* a list one record longer than a page of api_disbursal_summary
LongList ==
    [i \in 1..(SummaryPerPage + 1) |->
        IF i <= SummaryPerPage THEN BaseRecord
        ELSE [BaseRecord EXCEPT !.loan_no = "L2", !.loan_amount = Num(2000)]]

PageParams == {NoParam, IntParam(-1), IntParam(0), IntParam(1), IntParam(2), IntParam(3), BadParam}
PerPageParams == {NoParam, IntParam(1), IntParam(2)}

\* page, per_page, search and a disbursal-date range
PagedRequests ==
    {[NoDetailParams EXCEPT !.page = p, !.per_page = pp, !.search = s,
                            !.date_from = range[1], !.date_to = range[2],
                            !.date_type = range[3]]
        : p \in PageParams, pp \in PerPageParams, s \in {"", "l1"},
          range \in {<<NoDateParam, NoDateParam, "">>,
                     <<DayParam(1), DayParam(3), "disbursal_date">>}}

DetailRequests ==
    {[r EXCEPT !.sort_by = so[1], !.sort_order = so[2]]
        : r \in PagedRequests,
          so \in {<<"", "">>, <<"loan_no", "asc">>, <<"pan", "">>, <<"rank", "">>}}

BucketRequests ==
    {[r EXCEPT !.sort_by = so[1], !.sort_order = so[2], !.dpd_bucket = b]
        : r \in PagedRequests,
          so \in {<<"", "">>, <<"loan_no", "asc">>, <<"net_disbursal", "">>, <<"rank", "">>},
          b \in {"", "0"}}

StartEndRequests ==
    {[NoDetailParams EXCEPT !.startDate = a, !.start_date = b, !.endDate = c, !.end_date = d]
        : a \in {NoDateParam, DayParam(1)}, b \in {NoDateParam, DayParam(1)},
          c \in {NoDateParam, DayParam(31)}, d \in {NoDateParam, DayParam(31)}}

SummaryRequests ==
    {[NoDetailParams EXCEPT !.startDate = a, !.endDate = c, !.page = p]
        : a \in {NoDateParam, DayParam(1), BadDateParam},
          c \in {NoDateParam, DayParam(31)}, p \in PageParams}

InitDetail ==
    /\ records \in ListsUpTo(DetailRecords, MaxRecords) \cup {LongList}
    /\ request = NoFilter
    /\ response = NoResponse
    /\ divisors = {}
    /\ database = EmptyDatabase
    /\ calls = NoCalls

\* a request is taken up when the server is idle
NextDetail ==
    \/ Idle /\ \E req \in DetailRequests, fetch_ok \in BOOLEAN :
          api_total_applications_details(req, fetch_ok)
    \/ Idle /\ \E req \in DetailRequests, fetch_ok \in BOOLEAN :
          api_fraud_total_applications_details(req, fetch_ok)
    \/ Idle /\ \E req \in BucketRequests, fetch_ok \in BOOLEAN :
          api_dpd_bucket_details(req, fetch_ok)
    \/ Idle /\ \E req \in SummaryRequests, fetch_ok \in BOOLEAN :
          api_disbursal_summary(req, fetch_ok)
    \/ Idle /\ \E req \in StartEndRequests, fetch_ok \in BOOLEAN :
          api_credit_person_wise(req, fetch_ok)
    \/ Idle /\ \E req \in StartEndRequests, fetch_ok \in BOOLEAN :
          api_not_closed_percent(req, fetch_ok)
    \/ Idle /\ \E req \in StartEndRequests, fetch_ok \in BOOLEAN :
          api_loan_count_wise(req, fetch_ok)
    \/ Deliver

SpecDetail == InitDetail /\ [][NextDetail]_vars

-----------------------------------------------------------------------------
(* Claims about the detail lists and the pagination                        *)

TotalApplicationsEndpoints ==
    {"api_total_applications_details", "api_fraud_total_applications_details"}
DetailEndpoints == TotalApplicationsEndpoints \cup {"api_dpd_bucket_details"}
PaginatedEndpoints == DetailEndpoints \cup {"api_disbursal_summary"}

\* what the endpoint of the current response answers to the request req on the
\* same records when the upstream fetch works
ResponseFor(req) ==
    IF response.endpoint \in TotalApplicationsEndpoints
    THEN total_applications_details(response.endpoint, records, req, TRUE)
    ELSE IF response.endpoint = "api_dpd_bucket_details"
    THEN dpd_bucket_details(records, req, TRUE)
    ELSE disbursal_summary(records, req, TRUE)

\* the filtered and searched records of the current request, and their sorted list
Matching ==
    IF response.endpoint \in TotalApplicationsEndpoints
    THEN details_search(Filtered, request.search)
    ELSE bucket_filtered_records(Filtered, request)
SortedMatching ==
    IF response.endpoint \in TotalApplicationsEndpoints
    THEN details_sorted(Matching, request)
    ELSE bucket_sorted(Matching, request)

LoanNumbers(recs) == [i \in 1..Len(recs) |-> GetOr(recs[i].loan_no, "")]

RECURSIVE Flatten(_)
Flatten(lists) == IF lists = <<>> THEN <<>> ELSE Head(lists) \o Flatten(Tail(lists))

\* the least k with k * b >= a
Ceil(a, b) == CHOOSE k \in 0..a : k * b >= a /\ (k = 0 \/ (k - 1) * b < a)

\* C11 (as claimed): in a detail-list endpoint with per_page >= 1 the records
\* returned for the pages 1, 2, ..., total_pages, put one after the other, are
\* the whole filtered, searched and sorted list: every record once, in the
\* sorted order.
C11_PagesConcatenate ==
    (/\ response.endpoint \in DetailEndpoints
     /\ response.computed
     /\ response.body.pagination.per_page >= 1) =>
        LET total_pages == response.body.pagination.total_pages
            PageLoans(p) ==
                LET answer == ResponseFor([request EXCEPT !.page = IntParam(p)])
                IN  IF answer.computed \/ answer.endpoint \in TotalApplicationsEndpoints
                    THEN LoanNumbers(answer.body.records)
                    ELSE <<>>
        IN  Flatten([p \in 1..total_pages |-> PageLoans(p)]) = LoanNumbers(SortedMatching)

\* the response carries a pagination object
HasPagination ==
    /\ response.endpoint \in PaginatedEndpoints
    /\ \/ response.computed
       \/ /\ response.endpoint \in TotalApplicationsEndpoints
          /\ response.status = 500
          /\ response.upstream # "none"

Pagination == response.body.pagination

C13_OutOfRangeClampsToFirst ==
    (/\ response.endpoint \in PaginatedEndpoints
     /\ response.upstream = "ok"
     /\ request.page.k = "int"
     /\ IntParamOr(request.per_page, DefaultPerPage) >= 1) =>
        LET first == ResponseFor([request EXCEPT !.page = IntParam(1)])
        IN  (/\ first.computed
             /\ \/ request.page.n < 1
                \/ request.page.n > first.body.pagination.total_pages) =>
                /\ response.computed
                /\ Pagination.current_page = 1
                /\ response.body.records = first.body.records

\* the sums the totals object of the current endpoint is made of
ExpectedTotals ==
    IF response.endpoint \in TotalApplicationsEndpoints
    THEN [total_loan_amount |-> SumBy(Matching, SafeLoanAmount),
          total_net_disbursal |-> SumBy(Matching, SafeNetDisbursal),
          total_repayment_amount |-> SumBy(Matching, SafeRepaymentAmount),
          total_processing_fee |-> SumBy(Matching, SafeProcessingFee),
          total_interest_amount |-> SumBy(Matching, SafeInterestAmount),
          total_received |-> SumBy(Matching, SafeTotalReceived)]
    ELSE [total_net_disbursal |-> SumBy(Matching, SafeNetDisbursal),
          total_repayment_amount |-> SumBy(Matching, SafeRepaymentAmount)]

\* C14 (as claimed): in a detail-list endpoint the totals object and
\* total_records are the sums over, and the number of, all the filtered and
\* searched records, whatever page, per_page, sort_by and sort_order are.
C14_TotalsBeforePagination ==
    (/\ response.endpoint \in DetailEndpoints
     /\ response.upstream = "ok") =>
        /\ response.endpoint \in TotalApplicationsEndpoints \/ response.computed
        /\ response.body.totals = ExpectedTotals
        /\ Pagination.total_records = Len(Matching)

\* the request lacks a parameter its endpoint requires
MissingRequired ==
    CASE response.endpoint = "api_dpd_bucket_details" -> request.dpd_bucket = ""
      [] response.endpoint \in {"api_credit_person_wise", "api_not_closed_percent"} ->
            \/ request.startDate.k = "none" /\ request.start_date.k = "none"
            \/ request.endDate.k = "none" /\ request.end_date.k = "none"
      [] response.endpoint \in {"api_loan_count_wise", "api_disbursal_summary"} ->
            request.startDate.k = "none" \/ request.endDate.k = "none"
      [] OTHER -> FALSE

\* C17 (as claimed): a request without a required parameter (dpd_bucket for
\* api_dpd_bucket_details; start and end date for api_credit_person_wise,
\* api_not_closed_percent, api_loan_count_wise and api_disbursal_summary) gets a
\* 400 response before the upstream fetch is started, without any result.
C17_MissingParamRejected ==
    MissingRequired =>
        /\ response.status = 400
        /\ response.upstream = "none"
        /\ ~response.computed

\* one of the dates of the record is a text that cannot be parsed
HasBadDate(r) ==
    \E ts \in {r.disbursal_date, r.repayment_date, r.last_received_date} : ts.kind = "bad"

\* the record is well formed apart from its dates
CleanApartFromDates(r) ==
    /\ r.pan # NoneS
    /\ r.city # NoneS
    /\ \A v \in {r.loan_amount, r.net_disbursal, r.repayment_amount, r.total_received,
                 r.interest_amount, r.processing_fee, r.overdue_days} : v.k = "num"

\* C20 (as claimed): a record whose date cannot be parsed is left out by the
\* date-range filter only; a detail list over the same records keeps it and
\* answers without an error.
C20_UnparseableDateRetained ==
    (/\ response.endpoint \in DetailEndpoints
     /\ response.upstream = "ok"
     /\ \A i \in 1..Len(records) : CleanApartFromDates(records[i])) =>
        LET DateField(r) == IF request.date_type = "disbursal_date"
                            THEN r.disbursal_date ELSE r.repayment_date
            Dropped(r) == request.date_from.k = "day" /\ DateField(r).kind = "bad"
            InList(r) == r.loan_no \in {Matching[i].loan_no : i \in 1..Len(Matching)}
        IN  /\ response.computed
            /\ Pagination.total_records = Len(Matching)
            /\ \A i \in 1..Len(records) :
                  HasBadDate(records[i]) =>
                      IF Dropped(records[i]) THEN ~InList(records[i])
                      ELSE (request.date_from.k = "none" /\ request.search = ""
                            /\ response.endpoint # "api_dpd_bucket_details")
                               => InList(records[i])

-----------------------------------------------------------------------------
(* Specification of apply_fraud_filters                                    *)

\* 18:30 UTC, the minute of the day at which the IST calendar date changes
IstMidnightUtc == MinutesPerDay - IstOffsetMinutes

\* the repayment_date texts of the records: around the IST change of date, in
\* each of the forms parse_datetime_safely reads
FilterStamps ==
    {Stamp("Z", 9, IstMidnightUtc - 1, 0), Stamp("Z", 9, IstMidnightUtc, 0),
     Stamp("Z", 10, IstMidnightUtc - 1, 0), Stamp("Z", 10, IstMidnightUtc, 0),
     Stamp("naive", 9, IstMidnightUtc, 0), Stamp("naive", 10, IstMidnightUtc - 1, 0),
     Stamp("offset", 10, 1200, IstOffsetMinutes),
     Stamp("offset", 10, 100, IstOffsetMinutes),
     Stamp("offset", 10, 600, 0),
     Stamp("date", 10, 0, 0),
     Stamp("bad", 0, 0, 0), NoStamp}

\* the (state, city) pairs of the records
FilterPlaces ==
    {<<"Maharashtra", "Mumbai">>, <<"Maharashtra", "Mumbai Suburban">>,
     <<"Maharashtra", " mumbai ">>, <<"Maharashtra", " Pune ">>,
     <<"Goa", "Mumbai">>, <<NoneS, "Mumbai">>,
     <<"Maharashtra", NoneS>>, <<"Goa", MissingS>>}

FilterRecords ==
    {[BaseRecord EXCEPT !.repayment_date = ts] : ts \in FilterStamps}
        \cup {[BaseRecord EXCEPT !.disbursal_date = Stamp("Z", 10, 600, 0),
                                 !.repayment_date = Stamp("Z", 20, 600, 0)]}
        \cup {[BaseRecord EXCEPT !.state = p[1], !.city = p[2]] : p \in FilterPlaces}

\* date_from and date_to of the requests
FilterRanges ==
    {<<DayParam(9), DayParam(9)>>, <<DayParam(10), DayParam(10)>>,
     <<DayParam(9), DayParam(10)>>, <<DayParam(10), DayParam(11)>>,
     <<DayParam(11), DayParam(10)>>, <<BadDateParam, DayParam(10)>>,
     <<DayParam(10), NoDateParam>>}

FilterRequests ==
    {[NoFilter EXCEPT !.date_from = g[1], !.date_to = g[2], !.date_type = t] :
        g \in FilterRanges, t \in {"", "disbursal_date"}}
        \cup {[NoFilter EXCEPT !.state = st, !.city = c] :
                st \in {"", "Maharashtra"}, c \in {"", "Mumbai", " Pune "}}

\* records = apply_fraud_filters(records, request), as every filtered view calls it
apply_fraud_filters_call(req) ==
    /\ Idle
    /\ Respond(req,
               IF apply_fraud_filters_raises(records, req)
               THEN ErrorResponse("apply_fraud_filters")
               ELSE OkResponse("apply_fraud_filters", apply_fraud_filters(records, req)),
               {})

InitFilter ==
    /\ records \in ListsUpTo(FilterRecords, MaxRecords)
    /\ request = NoFilter
    /\ response = NoResponse
    /\ divisors = {}
    /\ database = EmptyDatabase
    /\ calls = NoCalls

NextFilter ==
    \* a request is taken up when the server is idle
    \/ Idle /\ \E req \in FilterRequests : apply_fraud_filters_call(req)
    \/ Deliver

SpecFilter == InitFilter /\ [][NextFilter]_vars

\* the field the date range is compared with
RangeField(r) ==
    IF request.date_type = "disbursal_date" THEN r.disbursal_date ELSE r.repayment_date

\* the calendar day of the instant a timestamp names, in UTC + 5:30
IstDay(ts) ==
    (ts.day * MinutesPerDay + ts.min - ts.off + IstOffsetMinutes) \div MinutesPerDay

IsKept(r) == \E j \in 1..Len(response.body) : response.body[j] = r

\* C15 (as claimed): with a date range, a record whose timestamp is of an
\* accepted form is kept exactly when the calendar date of its instant, taken
\* in UTC and moved forward by 5 hours 30 minutes, lies between date_from and
\* date_to, both included.
C15_KeptIffIstDateInRange ==
    (/\ response.endpoint = "apply_fraud_filters"
     /\ request.date_from.k = "day"
     /\ request.date_to.k = "day") =>
        /\ response.computed
        /\ \A i \in 1..Len(records) :
              LET ts == RangeField(records[i])
              IN  ts.kind \in {"Z", "offset", "naive", "date"} =>
                     (IsKept(records[i]) <=>
                        /\ request.date_from.d <= IstDay(ts)
                        /\ IstDay(ts) <= request.date_to.d)

\* the record passes the state and city filters as C16 states them
PlaceMatches(r) ==
    /\ request.state # "" => Get(r.state) = request.state
    /\ request.city # "" => Strip(GetOr(r.city, "")) = Strip(request.city)

\* C16: the state filter keeps the records whose state is exactly the
\* parameter; the city filter, with or without a state, keeps the records whose
\* trimmed raw city is the trimmed parameter; a city that only normalizes to
\* the same name is not kept.
C16_ExactStateAndCity ==
    (/\ response.endpoint = "apply_fraud_filters"
     /\ response.computed
     /\ request.date_from.k = "none") =>
        /\ response.body = SelectSeq(records, PlaceMatches)
        /\ \A i \in 1..Len(records) :
              (/\ request.city # ""
               /\ Strip(GetOr(records[i].city, "")) # Strip(request.city)
               /\ normalize_city_name(records[i].city) = normalize_city_name(request.city))
                  => ~IsKept(records[i])

C16_Witness ==
    /\ response.endpoint = "apply_fraud_filters"
    /\ response.computed
    /\ request.city = "Mumbai"
    /\ request.state = "Maharashtra"
    /\ Len(records) = 2
    /\ records[1].city = "Mumbai Suburban"
    /\ records[2].city = "Mumbai"
    /\ records[1].state = "Maharashtra"
    /\ response.body = <<records[2]>>

-----------------------------------------------------------------------------
(* Specification of the computations over malformed records                *)

MalformedValues == {NullV, MissingV, GarbageV}

\* a well-formed record, and the records with one malformed field
MalformedRecords ==
    {BaseRecord, [BaseRecord EXCEPT !.city = NoneS]}
        \cup {[BaseRecord EXCEPT !.loan_amount = v] : v \in MalformedValues}
        \cup {[BaseRecord EXCEPT !.net_disbursal = v] : v \in MalformedValues}
        \cup {[BaseRecord EXCEPT !.repayment_amount = v] : v \in MalformedValues}
        \cup {[BaseRecord EXCEPT !.total_received = v] : v \in MalformedValues}
        \cup {[BaseRecord EXCEPT !.interest_amount = v] : v \in MalformedValues}
        \cup {[BaseRecord EXCEPT !.overdue_days = v] : v \in MalformedValues}

MalformedRequests == {NoFilter, [NoFilter EXCEPT !.city = "Pune"]}

\* kpi_data = calculate_kpi_from_records(records)
calculate_kpi_from_records_call ==
    /\ Idle
    /\ Respond(NoFilter,
               IF calculate_kpi_from_records_raises(records)
               THEN ErrorResponse("calculate_kpi_from_records")
               ELSE OkResponse("calculate_kpi_from_records",
                               calculate_kpi_from_records(records)),
               {})

InitMalformed ==
    /\ records \in ListsUpTo(MalformedRecords, MaxRecords)
    /\ request = NoFilter
    /\ response = NoResponse
    /\ divisors = {}
    /\ database = EmptyDatabase
    /\ calls = NoCalls

\* the upstream answers every fetch
NextMalformed ==
    \/ calculate_kpi_from_records_call
    \/ Idle /\ \E req \in MalformedRequests : api_dpd_buckets(req, TRUE)
    \/ Idle /\ \E req \in MalformedRequests : apply_fraud_filters_call(req)
    \/ Deliver

SpecMalformed == InitMalformed /\ [][NextMalformed]_vars

\* C18 (as claimed): the KPI calculation and the aggregations never fail on a
\* record with a null, missing or non-numeric numeric field or a null city:
\* the result is a normal one, never an error response.
C18_NeverFailsOnMalformed ==
    response.endpoint \in {"calculate_kpi_from_records", "api_dpd_buckets",
                           "apply_fraud_filters"} =>
        /\ response.computed
        /\ response.status = 200

-----------------------------------------------------------------------------
(* Specification of the normalizers                                        *)

\* the city names the normalizer is applied to
NormalizeCities ==
    {"", "  ", "Delhi", "New Delhi", "South Delhi", " New Delhi ",
     "DELHI", "new delhi", "Mumbai", "Mumbai Suburban", " mumbai ", "mumbai",
     "MUMBAI", "Navi Mumbai", "Delhi Mumbai", "Medchal", "Medchal Malkajgiri",
     "Malkajgiri", "medchal", "MALKAJGIRI", "Hyderabad", "Pune", " Pune ",
     "Unknown", "Agra", NoneS}

\* the bucket labels the normalizer is applied to: the labels of the table,
\* the label the table maps '0' to, and labels the table does not hold
NormalizeLabels ==
    DOMAIN dpd_bucket_mapping \cup {"0 days DPD", "Unknown", "", " 0 ", "dpd 1-30", NoneS}

NormalizeRecords ==
    {[BaseRecord EXCEPT !.city = c] : c \in NormalizeCities}
        \cup {[BaseRecord EXCEPT !.dpd_bucket = b] : b \in NormalizeLabels}

\* normalize_city_name(record.get('city')) for record in records
normalize_city_name_call ==
    /\ Idle
    /\ Respond(NoFilter,
               OkResponse("normalize_city_name",
                          List([i \in 1..Len(records) |->
                                   normalize_city_name(records[i].city)])),
               {})

\* normalize_dpd_bucket(record.get('dpd_bucket')) for record in records
normalize_dpd_bucket_call ==
    /\ Idle
    /\ Respond(NoFilter,
               OkResponse("normalize_dpd_bucket",
                          List([i \in 1..Len(records) |->
                                   normalize_dpd_bucket(records[i].dpd_bucket)])),
               {})

InitNormalize ==
    /\ records \in ListsUpTo(NormalizeRecords, MaxRecords)
    /\ request = NoFilter
    /\ response = NoResponse
    /\ divisors = {}
    /\ database = EmptyDatabase
    /\ calls = NoCalls

NextNormalize ==
    \/ normalize_city_name_call
    \/ normalize_dpd_bucket_call
    \/ Deliver

SpecNormalize == InitNormalize /\ [][NextNormalize]_vars

\* what C21 says of each city name: 'Delhi' for a name with 'delhi' in it,
\* 'Mumbai' for one with 'mumbai', 'Hyderabad' for one with 'medchal' or
\* 'malkajgiri', in any letter case and in this order; otherwise the trimmed name
ExpectedCities ==
    {<<"", "">>, <<"  ", "">>, <<NoneS, NoneS>>,
     <<"Delhi", "Delhi">>, <<"New Delhi", "Delhi">>, <<"South Delhi", "Delhi">>,
     <<" New Delhi ", "Delhi">>, <<"DELHI", "Delhi">>, <<"new delhi", "Delhi">>,
     <<"Delhi Mumbai", "Delhi">>,
     <<"Mumbai", "Mumbai">>, <<"Mumbai Suburban", "Mumbai">>, <<" mumbai ", "Mumbai">>,
     <<"mumbai", "Mumbai">>, <<"MUMBAI", "Mumbai">>, <<"Navi Mumbai", "Mumbai">>,
     <<"Medchal", "Hyderabad">>, <<"Medchal Malkajgiri", "Hyderabad">>,
     <<"Malkajgiri", "Hyderabad">>, <<"medchal", "Hyderabad">>,
     <<"MALKAJGIRI", "Hyderabad">>,
     <<"Hyderabad", "Hyderabad">>, <<"Pune", "Pune">>, <<" Pune ", "Pune">>,
     <<"Unknown", "Unknown">>, <<"Agra", "Agra">>}

\* the labels of the table of normalize_dpd_bucket and its canonical labels
TableLabels ==
    {"0", "0-30", "DPD 1-30", "31-60", "DPD 31-60", "61-90", "DPD 61-90",
     "91-120", "DPD 91-120", "121-150", "DPD 121-150", "151-180", "DPD 151-180",
     "181-365", "DPD 181-365", "365+", "DPD 365+", "No DPD"}

CanonicalLabels ==
    {"0 days DPD", "DPD 1-30", "DPD 31-60", "DPD 61-90", "DPD 91-120",
     "DPD 121-150", "DPD 151-180", "DPD 181-365", "DPD 365+", "No DPD"}

\* C21: both normalizers answer for every text and are idempotent;
\* normalize_city_name gives 'Delhi', 'Mumbai' or 'Hyderabad' for the names that
\* hold the keyword in any letter case and the trimmed name otherwise;
\* normalize_dpd_bucket gives a canonical label for every label of its table
\* and leaves every other label unchanged.
C21_NormalizersIdempotent ==
    /\ response.endpoint = "normalize_city_name" =>
          /\ response.status = 200
          /\ Len(response.body) = Len(records)
          /\ \A i \in 1..Len(records) :
                /\ normalize_city_name(response.body[i]) = response.body[i]
                /\ <<records[i].city, response.body[i]>> \in ExpectedCities
    /\ response.endpoint = "normalize_dpd_bucket" =>
          /\ response.status = 200
          /\ Len(response.body) = Len(records)
          /\ \A i \in 1..Len(records) :
                /\ normalize_dpd_bucket(response.body[i]) = response.body[i]
                /\ records[i].dpd_bucket \in TableLabels =>
                      response.body[i] \in CanonicalLabels
                /\ records[i].dpd_bucket \notin TableLabels =>
                      response.body[i] = records[i].dpd_bucket

C21_Witness ==
    /\ response.endpoint = "normalize_city_name"
    /\ Len(records) = 2
    /\ records[1].city = "  "
    /\ records[2].city = "DELHI"
    /\ response.body = <<"", "Delhi">>

-----------------------------------------------------------------------------
(* Specification of the lists a detail endpoint filters and sorts          *)

\* apply_fraud_filters assigns a new list to its local name 'records' in the
\* date step (after both dates are parsed) and in the closing_status, dpd,
\* state and city steps; otherwise it returns the list it was given
apply_fraud_filters_rebinds(req) ==
    \/ req.date_from.k = "day" /\ req.date_to.k = "day"
    \/ req.closing_status # ""
    \/ req.dpd # ""
    \/ req.state # ""
    \/ req.city # ""

\* the fetch, filter, search and sort steps of api_total_applications_details:
\* filtered_records is the fetched list itself when neither apply_fraud_filters
\* nor the search built a new one, and then list.sort reorders the fetched list
\* (a sort that raises leaves a list partly sorted; the records of this
\* specification have no null sort key)
filter_and_sort(req) ==
    /\ Idle
    /\ LET searched == details_search(apply_fraud_filters(records, req), req.search)
           returned_same == ~apply_fraud_filters_rebinds(req)
           sorted_same == returned_same /\ req.search = ""
           filtered_records == details_sorted(searched, req)
       IN  Respond(req,
                   OkResponse("filter_and_sort",
                              [returned_same |-> returned_same,
                               filtered_records |-> filtered_records,
                               records |-> IF sorted_same THEN filtered_records
                                           ELSE records]),
                   {})

AliasRecords ==
    {BaseRecord,
     [BaseRecord EXCEPT !.loan_no = "L2", !.disbursal_date = Stamp("Z", 2, 600, 0)],
     [BaseRecord EXCEPT !.loan_no = "L12", !.disbursal_date = Stamp("Z", 3, 600, 0),
                        !.state = "Goa"]}

AliasRequests ==
    {[NoDetailParams EXCEPT !.sort_by = sb, !.sort_order = so, !.search = q,
                            !.state = st, !.date_from = g[1], !.date_to = g[2]] :
        sb \in {"", "loan_no", "rank"}, so \in {"asc", "desc"}, q \in {"", "l1"},
        st \in {"", "Maharashtra"},
        g \in {<<NoDateParam, NoDateParam>>, <<DayParam(1), DayParam(30)>>,
               <<BadDateParam, DayParam(30)>>}}

InitAlias ==
    /\ records \in ListsUpTo(AliasRecords, MaxRecords)
    /\ request = NoFilter
    /\ response = NoResponse
    /\ divisors = {}
    /\ database = EmptyDatabase
    /\ calls = NoCalls

NextAlias ==
    \* a request is taken up when the server is idle
    \/ Idle /\ \E req \in AliasRequests : filter_and_sort(req)
    \/ Deliver

SpecAlias == InitAlias /\ [][NextAlias]_vars

\* C22 (as claimed): apply_fraud_filters returns a new list for every filter
\* combination, also when no filter parameter is set, so the in-place sort of
\* the filtered list leaves the fetched list in the order it was fetched in.
C22_FilterReturnsNewList ==
    response.endpoint = "filter_and_sort" =>
        /\ ~response.body.returned_same
        /\ response.body.records = records

-----------------------------------------------------------------------------
(* Claims about the recovery metrics and the pending percentage            *)

\* the number a record field counts as in a computed KPI result
Amount(v) == IF v.k = "num" THEN v.n ELSE 0

\* a percentage p, in hundredths, is num / den * 100 to two decimals, and 0
\* when den is not positive
IsPercentageOf(p, num, den) ==
    /\ den <= 0 => p = 0
    /\ den > 0 => (2 * (p * den - 10000 * num) <= den /\ 2 * (10000 * num - p * den) <= den)

\* C23: the recovery metrics of calculate_kpi_from_records count the records
\* with overdue_days <= 90 only (90 counts, 91 does not): recoverable is the
\* received sum less the interest sum, the recovery percentage is recoverable /
\* loan_amount sum * 100 (to the two decimals reported) and 0 when that sum is
\* not positive, for all, the fresh and the reloan records; the fresh and the
\* reloan recoverable amounts add up to the total one.
C23_RecoveryExcludesOver90 ==
    IsKpiA =>
        LET Within(r) == Amount(r.overdue_days) <= 90
            Fresh(r) == Within(r) /\ r.reloan_status # "Reloan"
            Reloan(r) == Within(r) /\ r.reloan_status = "Reloan"
            Received(r) == Amount(r.total_received)
            Interest(r) == Amount(r.interest_amount)
            Loan(r) == Amount(r.loan_amount)
            all == SelectSeq(Filtered, Within)
            fresh == SelectSeq(Filtered, Fresh)
            reloan == SelectSeq(Filtered, Reloan)
        IN  /\ KpiA.recoverable_amount_excl_90 = SumBy(all, Received) - SumBy(all, Interest)
            /\ KpiA.fresh_recoverable_excl_90 = SumBy(fresh, Received) - SumBy(fresh, Interest)
            /\ KpiA.reloan_recoverable_excl_90 = SumBy(reloan, Received) - SumBy(reloan, Interest)
            /\ IsPercentageOf(KpiA.recovery_percentage_excl_90,
                              KpiA.recoverable_amount_excl_90, SumBy(all, Loan))
            /\ IsPercentageOf(KpiA.fresh_recovery_percentage_excl_90,
                              KpiA.fresh_recoverable_excl_90, SumBy(fresh, Loan))
            /\ IsPercentageOf(KpiA.reloan_recovery_percentage_excl_90,
                              KpiA.reloan_recoverable_excl_90, SumBy(reloan, Loan))
            /\ KpiA.fresh_recoverable_excl_90 + KpiA.reloan_recoverable_excl_90
                  = KpiA.recoverable_amount_excl_90

C23_Witness ==
    /\ IsKpiA
    /\ request = NoFilter
    /\ Len(records) = 2
    /\ records[1].overdue_days = Num(91)
    /\ records[2].overdue_days = Num(90)
    /\ records[2].reloan_status = "Reloan"
    /\ KpiA.recoverable_amount_excl_90 = 500
    /\ KpiA.reloan_recoverable_excl_90 = 500
    /\ KpiA.recovery_percentage_excl_90 = 1667

\* C27 (as claimed): in a result of calculate_kpi_from_records with a positive
\* repayment sum, pending_percentage = 100 - collected_percentage, also when
\* nothing has been collected (then pending_percentage = 100).
C27_PendingIsComplement ==
    (IsKpiA /\ KpiA.repayment_amount > 0) =>
        /\ KpiA.pending_percentage = 10000 - KpiA.collected_percentage
        /\ KpiA.collected_amount = 0 => KpiA.pending_percentage = 10000

-----------------------------------------------------------------------------
(* Time series                                                             *)

\* the date a record is grouped under: parse_datetime_safely in
\* api_time_series; datetime.fromisoformat(...replace('Z', '+00:00')).date(),
\* the date as written, in api_fraud_time_series
time_series_date(ts, fraud) ==
    IF ~fraud THEN parse_datetime_safely(ts)
    ELSE IF ts.kind \in {"null", "missing", "bad"} THEN NoDay
    ELSE SomeDay(ts.day)

\* the groups of the loop over the records, sorted by date. A group is created
\* before the amounts are read; Decimal(str(...)) raises on a null or
\* non-numeric amount and the bare 'except: continue' leaves what the record
\* had added up to that statement.
time_series_data(recs, fraud) ==
    LET Dated(r) == time_series_date(r.repayment_date, fraud).ok
        Day(r) == time_series_date(r.repayment_date, fraud).day
        dated == SelectSeq(recs, Dated)
        days == {Day(dated[i]) : i \in 1..Len(dated)}
        Group(d) ==
            LET In(r) == Day(r) = d /\ ~DecimalStrRaises(r.repayment_amount)
                Whole(r) == In(r) /\ ~DecimalStrRaises(r.total_received)
                Collected(r) == Whole(r) /\ DecimalStr(r.total_received) > 0
                Pending(r) == Whole(r) /\ ~(DecimalStr(r.total_received) > 0)
                repayment_amount == SumBy(SelectSeq(dated, In), DecRepaymentAmount)
                collected_amount == SumBy(SelectSeq(dated, Whole), DecTotalReceived)
                rate == IF repayment_amount > 0
                        THEN Ratio(100 * collected_amount, repayment_amount)
                        ELSE Ratio(0, 1)
            IN  IF fraud
                THEN [date |-> d, repayment_amount |-> repayment_amount,
                      collected_amount |-> collected_amount,
                      collection_rate |-> rate]
                ELSE [date |-> d, repayment_amount |-> repayment_amount,
                      collected_amount |-> collected_amount,
                      pending_amount |-> repayment_amount - collected_amount,
                      collected_cases |-> Len(SelectSeq(dated, Collected)),
                      pending_cases |-> Len(SelectSeq(dated, Pending)),
                      collection_percentage |-> rate]
    IN  List([i \in 1..Cardinality(days) |->
                Group(CHOOSE d \in days : Cardinality({e \in days : e < d}) = i - 1)])

\* the response of both time-series endpoints
time_series(endpoint, recs, req, fetch_ok, fraud) ==
    IF ~fetch_ok THEN Upstream(ErrorResponse(endpoint), "failed")
    ELSE IF apply_fraud_filters_raises(recs, req) THEN Upstream(ErrorResponse(endpoint), "ok")
    ELSE Upstream(OkResponse(endpoint,
                             [data |-> time_series_data(apply_fraud_filters(recs, req), fraud)]),
                  "ok")

\* the denominators of the percentages of a response
TimeSeriesDivisors(resp) ==
    IF resp.computed
    THEN {resp.body.data[i].repayment_amount : i \in 1..Len(resp.body.data)} \ {0}
    ELSE {}

\* api_time_series(request)
api_time_series(req, fetch_ok) ==
    /\ Idle
    /\ LET resp == time_series("api_time_series", records, req, fetch_ok, FALSE)
       IN  Respond(req, resp, TimeSeriesDivisors(resp))

\* api_fraud_time_series(request)
api_fraud_time_series(req, fetch_ok) ==
    /\ Idle
    /\ LET resp == time_series("api_fraud_time_series", records, req, fetch_ok, TRUE)
       IN  Respond(req, resp, TimeSeriesDivisors(resp))

-----------------------------------------------------------------------------
(* Specification of the time-series endpoints                              *)

SeriesStamps ==
    {Stamp("Z", 10, IstMidnightUtc - 1, 0), Stamp("Z", 10, IstMidnightUtc, 0),
     Stamp("Z", 11, 600, 0), Stamp("naive", 10, IstMidnightUtc, 0),
     Stamp("bad", 0, 0, 0), NoStamp}

SeriesRecords ==
    {[BaseRecord EXCEPT !.repayment_date = ts, !.total_received = v] :
        ts \in SeriesStamps, v \in {Num(0), Num(500), NullV}}
        \cup {[BaseRecord EXCEPT !.repayment_date = Stamp("Z", 11, 600, 0),
                                 !.repayment_amount = NullV]}

SeriesRequests ==
    {NoFilter, [NoFilter EXCEPT !.date_from = DayParam(11), !.date_to = DayParam(11)]}

InitSeries ==
    /\ records \in ListsUpTo(SeriesRecords, MaxRecords)
    /\ request = NoFilter
    /\ response = NoResponse
    /\ divisors = {}
    /\ database = EmptyDatabase
    /\ calls = NoCalls

NextSeries ==
    \* a request is taken up when the server is idle
    \/ Idle /\ \E req \in SeriesRequests, fetch_ok \in BOOLEAN : api_time_series(req, fetch_ok)
    \/ Idle /\ \E req \in SeriesRequests, fetch_ok \in BOOLEAN : api_fraud_time_series(req, fetch_ok)
    \/ Deliver

SpecSeries == InitSeries /\ [][NextSeries]_vars

\* the records of the response that have a repayment date, and the calendar
\* day of each in UTC + 5:30
SeriesDated ==
    LET Dated(r) == r.repayment_date.kind \in {"Z", "offset", "naive", "date"}
    IN  SelectSeq(Filtered, Dated)

\* C24 (as claimed): both time-series endpoints group the records under the
\* calendar date of repayment_date moved forward by 5 hours 30 minutes (a
\* timestamp at or after 18:30 UTC falls on the next day); in api_time_series
\* collected_cases + pending_cases of a date is the number of its records, and
\* collected_cases the number of those with total_received > 0.
C24_GroupedByIstDate ==
    (/\ response.endpoint \in {"api_time_series", "api_fraud_time_series"}
     /\ response.upstream = "ok") =>
        /\ response.computed
        /\ {response.body.data[i].date : i \in 1..Len(response.body.data)}
              = {IstDay(SeriesDated[i].repayment_date) : i \in 1..Len(SeriesDated)}
        /\ response.endpoint = "api_time_series" =>
              \A i \in 1..Len(response.body.data) :
                 LET g == response.body.data[i]
                     OfDay(r) == IstDay(r.repayment_date) = g.date
                     Collected(r) == OfDay(r) /\ Amount(r.total_received) > 0
                 IN  /\ g.collected_cases + g.pending_cases
                           = Len(SelectSeq(SeriesDated, OfDay))
                     /\ g.collected_cases = Len(SelectSeq(SeriesDated, Collected))

-----------------------------------------------------------------------------
(* State-wise repayment                                                    *)

pending_total_Unclamped(repayment_total, collected_total) ==
    repayment_total - collected_total

\* pending_total = repayment_total - collected_total, set to 0 when negative
pending_total(repayment_total, collected_total) ==
    IF repayment_total - collected_total < 0 THEN 0
    ELSE repayment_total - collected_total

\* Decimal(str(...)) raises in the grouping loop
state_repayment_raises(recs) ==
    LET Bad(r) == DecimalStrRaises(r.repayment_amount) \/ DecimalStrRaises(r.total_received)
    IN  AnyRec(recs, Bad)

\* the groups by record.get('state', 'Unknown') in the order the states are
\* first met, sorted by pending_amount, highest first
state_repayment(recs) ==
    LET keys == List([i \in 1..Len(recs) |-> GetOr(recs[i].state, "Unknown")])
        order == FirstOccurrences(keys)
        result ==
            List([j \in 1..Len(order) |->
                    LET InState(r) == GetOr(r.state, "Unknown") = order[j]
                        members == SelectSeq(recs, InState)
                        repayment_total == SumBy(members, DecRepaymentAmount)
                        collected_total == SumBy(members, DecTotalReceived)
                    IN  [state |-> order[j],
                         repayment_amount |-> repayment_total,
                         collected_amount |-> collected_total,
                         pending_amount |-> pending_total(repayment_total, collected_total)]])
        key == List([j \in 1..Len(result) |-> result[j].pending_amount])
    IN  StableSort(result, key, TRUE)

\* api_state_repayment(request)
api_state_repayment(req, fetch_ok) ==
    /\ Idle
    /\ LET filtered_records == apply_fraud_filters(records, req)
           failed == \/ apply_fraud_filters_raises(records, req)
                     \/ state_repayment_raises(filtered_records)
       IN  Respond(req,
                   IF ~fetch_ok
                   THEN Upstream(ErrorResponse("api_state_repayment"), "failed")
                   ELSE IF failed
                   THEN Upstream(ErrorResponse("api_state_repayment"), "ok")
                   ELSE Upstream(OkResponse("api_state_repayment",
                                            [data |-> state_repayment(filtered_records)]),
                                 "ok"),
                   {})

-----------------------------------------------------------------------------
(* Specification of the state-wise repayment endpoint                      *)

StateNames == {"Maharashtra", "maharashtra", "Goa", NoneS, MissingS}

StateRecords ==
    {[BaseRecord EXCEPT !.state = st, !.repayment_amount = due, !.total_received = got] :
        st \in StateNames, due \in {Num(1000), Num(0)},
        got \in {Num(0), Num(400), Num(2500)}}
        \cup {[BaseRecord EXCEPT !.total_received = NullV]}

StateRequests == {NoFilter, [NoFilter EXCEPT !.state = "Goa"]}

InitState ==
    /\ records \in ListsUpTo(StateRecords, MaxRecords)
    /\ request = NoFilter
    /\ response = NoResponse
    /\ divisors = {}
    /\ database = EmptyDatabase
    /\ calls = NoCalls

NextState ==
    \* a request is taken up when the server is idle
    \/ Idle /\ \E req \in StateRequests, fetch_ok \in BOOLEAN : api_state_repayment(req, fetch_ok)
    \/ Deliver

SpecState == InitState /\ [][NextState]_vars

\* C25: every state group of api_state_repayment, keyed by the state as
\* written, reports pending_amount = max(0, repayment sum - received sum) of its
\* records, never a negative amount, and the groups come in non-increasing
\* order of pending_amount.
C25_PendingClampedAndSorted ==
    (response.endpoint = "api_state_repayment" /\ response.computed) =>
        LET data == response.body.data
            StateOf(r) == IF r.state = MissingS THEN "Unknown" ELSE r.state
            Due(r) == Amount(r.repayment_amount)
            Got(r) == Amount(r.total_received)
        IN  /\ {data[j].state : j \in 1..Len(data)}
                  = {StateOf(Filtered[i]) : i \in 1..Len(Filtered)}
            /\ \A j, k \in 1..Len(data) : j # k => data[j].state # data[k].state
            /\ \A j \in 1..Len(data) :
                  LET InState(r) == StateOf(r) = data[j].state
                      members == SelectSeq(Filtered, InState)
                      owed == SumBy(members, Due) - SumBy(members, Got)
                  IN  /\ data[j].pending_amount = IF owed > 0 THEN owed ELSE 0
                      /\ data[j].pending_amount >= 0
            /\ \A j \in 1..(Len(data) - 1) :
                  data[j].pending_amount >= data[j + 1].pending_amount

C25_Witness ==
    /\ response.endpoint = "api_state_repayment"
    /\ response.computed
    /\ Len(records) = 2
    /\ records[1].state = "maharashtra"
    /\ records[1].total_received = Num(2500)
    /\ records[2].state = "Maharashtra"
    /\ Len(response.body.data) = 2
    /\ response.body.data[1].state = "Maharashtra"
    /\ response.body.data[1].pending_amount = 600
    /\ response.body.data[2].collected_amount = 2500
    /\ response.body.data[2].pending_amount = 0

-----------------------------------------------------------------------------
(* Specification of apply_fraud_filters applied to its own result          *)

\* records that differ in each of the fields a filter reads; a list may hold
\* the same record twice
SublistRecords ==
    {BaseRecord,
     [BaseRecord EXCEPT !.closed_status = "Closed"],
     [BaseRecord EXCEPT !.dpd_bucket = "31-60"],
     [BaseRecord EXCEPT !.closed_status = "Closed", !.city = "Mumbai"],
     [BaseRecord EXCEPT !.closed_status = "Closed", !.city = "Mumbai",
                        !.repayment_date = Stamp("Z", 20, 600, 0)],
     [BaseRecord EXCEPT !.city = " Mumbai ", !.repayment_date = NoStamp],
     [BaseRecord EXCEPT !.state = "Goa", !.city = "Mumbai"],
     [BaseRecord EXCEPT !.city = MissingS, !.repayment_date = Stamp("bad", 0, 0, 0)],
     [BaseRecord EXCEPT !.closed_status = NoneS, !.dpd_bucket = MissingS,
                        !.state = NoneS, !.city = "Mumbai"]}

SublistRequests ==
    {[NoFilter EXCEPT !.date_from = g[1], !.date_to = g[2], !.closing_status = cs,
                      !.dpd = d, !.state = st, !.city = c] :
        g \in {<<NoDateParam, NoDateParam>>, <<DayParam(10), DayParam(10)>>,
               <<DayParam(10), NoDateParam>>, <<NoDateParam, DayParam(10)>>,
               <<BadDateParam, DayParam(10)>>},
        cs \in {"", "Closed"}, d \in {"", "0"},
        st \in {"", "Maharashtra"}, c \in {"", "Mumbai"}}

\* apply_fraud_filters(apply_fraud_filters(records, request), request): the
\* filters of the request in hand applied to the list they returned
apply_fraud_filters_again ==
    /\ response.endpoint = "apply_fraud_filters"
    /\ response.computed
    /\ Respond(request,
               IF apply_fraud_filters_raises(response.body, request)
               THEN [endpoint |-> "apply_fraud_filters_again", status |-> 500,
                     computed |-> FALSE, body |-> <<>>, first |-> response.body]
               ELSE [endpoint |-> "apply_fraud_filters_again", status |-> 200,
                     computed |-> TRUE,
                     body |-> apply_fraud_filters(response.body, request),
                     first |-> response.body],
               {})

InitSublist ==
    /\ records \in ListsUpTo(SublistRecords, MaxRecords)
    /\ request = NoFilter
    /\ response = NoResponse
    /\ divisors = {}
    /\ database = EmptyDatabase
    /\ calls = NoCalls

NextSublist ==
    \* a request is taken up when the server is idle
    \/ Idle /\ \E req \in SublistRequests : apply_fraud_filters_call(req)
    \/ apply_fraud_filters_again
    \/ Deliver

SpecSublist == InitSublist /\ [][NextSublist]_vars

\* the date range is active: both parameters are supplied (and are dates)
DateRangeActive == request.date_from.k = "day" /\ request.date_to.k = "day"

\* the record satisfies every active filter of the request in hand
SatisfiesActive(r) ==
    /\ DateRangeActive =>
          LET parsed_date == parse_datetime_safely(RangeField(r))
          IN  /\ parsed_date.ok
              /\ request.date_from.d <= parsed_date.day
              /\ parsed_date.day <= request.date_to.d
    /\ request.closing_status # "" => Get(r.closed_status) = request.closing_status
    /\ request.dpd # "" => Get(r.dpd_bucket) = request.dpd
    /\ request.state # "" => Get(r.state) = request.state
    /\ request.city # "" => Strip(GetOr(r.city, "")) = Strip(request.city)

\* the record passes the filters other than the date range
SatisfiesUndated(r) ==
    /\ request.closing_status # "" => Get(r.closed_status) = request.closing_status
    /\ request.dpd # "" => Get(r.dpd_bucket) = request.dpd
    /\ request.state # "" => Get(r.state) = request.state
    /\ request.city # "" => Strip(GetOr(r.city, "")) = Strip(request.city)

\* C28: the list apply_fraud_filters returns is the input records that satisfy
\* every active filter (date range, closing_status, dpd, state, city), in their
\* input order, each as often as the input holds it; with date_from or date_to
\* not supplied the date range plays no part; the same filters applied to the
\* returned list return that list again.
C28_ExactSublistIdempotent ==
    /\ (response.endpoint = "apply_fraud_filters" /\ response.computed) =>
          /\ response.body = SelectSeq(records, SatisfiesActive)
          /\ (request.date_from.k = "none" \/ request.date_to.k = "none") =>
                response.body = SelectSeq(records, SatisfiesUndated)
    /\ response.endpoint = "apply_fraud_filters_again" =>
          /\ response.computed
          /\ response.body = response.first

\* all five filters are active, one of two records passes them, and the
\* second application returned the same one-record list
C28_Witness ==
    /\ response.endpoint = "apply_fraud_filters_again"
    /\ DateRangeActive
    /\ request.closing_status = "Closed"
    /\ request.dpd = "0"
    /\ request.state = "Maharashtra"
    /\ request.city = "Mumbai"
    /\ Len(records) = 2
    /\ records[1].repayment_date = Stamp("Z", 20, 600, 0)
    /\ response.first = <<records[2]>>
    /\ response.body = <<records[2]>>

-----------------------------------------------------------------------------
(* MonthlyTarget: one row per (month, year)                                *)

\* datetime.now() of the calls: they fall in one month
Now == [month |-> 11, year |-> 2026]

\* a Decimal is counted in thousandths of a rupee
Rupees(n) == 1000 * n

\* what a DecimalField with decimal_places=2 writes: the value rounded to two
\* decimals, halves to the even digit
Quantize(m) ==
    LET q == m \div 10
        r == m % 10
    IN  10 * (IF r > 5 \/ (r = 5 /\ q % 2 = 1) THEN q + 1 ELSE q)

\* the primary keys of the rows objects.get(month=now.month, year=now.year) finds
MonthRows(db) ==
    {pk \in 1..Len(db.MonthlyTarget) :
        /\ db.MonthlyTarget[pk].month = Now.month
        /\ db.MonthlyTarget[pk].year = Now.year}

UniqueTogether_Unenforced(db, month, year) == TRUE

\* unique_together = ['month', 'year']: the INSERT of a second row for a
\* (month, year) is refused with IntegrityError
UniqueTogether(db, month, year) ==
    \A pk \in 1..Len(db.MonthlyTarget) :
        ~(db.MonthlyTarget[pk].month = month /\ db.MonthlyTarget[pk].year = year)

\* the committed write of a call: who wrote and the amount the call was given
Written(by, amount) == [month |-> Now.month, year |-> Now.year, amount |-> amount, by |-> by]

\* objects.create(month, year, target_amount=amount)
Inserted(db, by, amount) ==
    [db EXCEPT !.MonthlyTarget =
                  Append(@, [month |-> Now.month, year |-> Now.year,
                             target_amount |-> Quantize(amount)]),
               !.journal = Append(@, Written(by, amount))]

\* target.target_amount = amount; target.save()
Saved(db, pk, by, amount) ==
    [db EXCEPT !.MonthlyTarget[pk].target_amount = Quantize(amount),
               !.journal = Append(@, Written(by, amount))]

\* MonthlyTarget.get_current_month_target(): raises MultipleObjectsReturned on
\* more than one row
get_current_month_target_raises(db) == Cardinality(MonthRows(db)) > 1

\* MonthlyTarget.get_current_month_target()
get_current_month_target(db) ==
    IF MonthRows(db) = {} THEN 0
    ELSE db.MonthlyTarget[CHOOSE pk \in MonthRows(db) : TRUE].target_amount

\* MonthlyTarget.set_current_month_target(amount) run with no other call between
\* its steps: the database it leaves
set_current_month_target(db, by, amount) ==
    IF MonthRows(db) = {} THEN Inserted(db, by, amount)
    ELSE Saved(db, CHOOSE pk \in MonthRows(db) : TRUE, by, amount)

-----------------------------------------------------------------------------
(* The steps of concurrent set_current_month_target calls                  *)

MaxCalls == 2

\* the call of worker w moves on
Moves(w, call) ==
    /\ calls' = [calls EXCEPT ![w] = call]
    /\ UNCHANGED <<records, request, response, divisors>>

\* a worker enters set_current_month_target(amount); Decimal(str(amount)) is
\* built before the database is read
set_current_month_target_enter(w, amount) ==
    /\ calls[w].pc = "idle"
    /\ calls[w].made < MaxCalls
    /\ Moves(w, [pc |-> "get", amount |-> amount, target |-> 0, created |-> FALSE,
                 made |-> calls[w].made + 1])
    /\ UNCHANGED database

\* get_or_create: self.get(month=..., year=...)
get_or_create_get(w) ==
    /\ calls[w].pc = "get"
    /\ Moves(w, IF MonthRows(database) = {} THEN [calls[w] EXCEPT !.pc = "create"]
                ELSE IF Cardinality(MonthRows(database)) > 1
                     THEN [calls[w] EXCEPT !.pc = "raised"]
                     ELSE [calls[w] EXCEPT !.pc = "assign",
                                           !.target = CHOOSE pk \in MonthRows(database) : TRUE])
    /\ UNCHANGED database

\* get_or_create: self.create(**params) after DoesNotExist; created is True and
\* the call returns, or the INSERT is refused and the row is looked up again
get_or_create_create(w) ==
    /\ calls[w].pc = "create"
    /\ IF UniqueTogether(database, Now.month, Now.year)
       THEN /\ database' = Inserted(database, w, calls[w].amount)
            /\ Moves(w, [calls[w] EXCEPT !.pc = "idle", !.created = TRUE,
                                         !.target = Len(database.MonthlyTarget) + 1])
       ELSE /\ Moves(w, [calls[w] EXCEPT !.pc = "get_again"])
            /\ UNCHANGED database

\* get_or_create: self.get(**kwargs) after IntegrityError; the IntegrityError is
\* raised again when the row is still not found
get_or_create_get_again(w) ==
    /\ calls[w].pc = "get_again"
    /\ Moves(w, IF Cardinality(MonthRows(database)) = 1
                THEN [calls[w] EXCEPT !.pc = "assign",
                                      !.target = CHOOSE pk \in MonthRows(database) : TRUE]
                ELSE [calls[w] EXCEPT !.pc = "raised"])
    /\ UNCHANGED database

\* if not created: target.target_amount = Decimal(str(amount)); target.save()
target_save(w) ==
    /\ calls[w].pc = "assign"
    /\ database' = Saved(database, calls[w].target, w, calls[w].amount)
    /\ Moves(w, [calls[w] EXCEPT !.pc = "idle"])

\* a request reads MonthlyTarget.get_current_month_target(); seen is the number
\* of writes committed before the read
get_current_month_target_call ==
    /\ Idle
    /\ Respond(NoFilter,
               IF get_current_month_target_raises(database)
               THEN [endpoint |-> "get_current_month_target", status |-> 500,
                     computed |-> FALSE, body |-> 0, seen |-> Len(database.journal)]
               ELSE [endpoint |-> "get_current_month_target", status |-> 200,
                     computed |-> TRUE, body |-> get_current_month_target(database),
                     seen |-> Len(database.journal)],
               {})

-----------------------------------------------------------------------------
(* Specification of the concurrent target updates                          *)

\* the amounts of the calls: whole rupees and paise
TargetAmounts == {Rupees(500), Rupees(800) + 250}

\* the MonthlyTarget rows before the calls: none, one of an earlier month, one
\* of this month, or both
TargetTables ==
    LET earlier == [month |-> 10, year |-> 2026, target_amount |-> Rupees(100)]
        current == [month |-> Now.month, year |-> Now.year, target_amount |-> Rupees(300)]
    IN  {<<>>, <<earlier>>, <<current>>, <<earlier, current>>}

\* the writes that made a table
JournalOf(table) ==
    [i \in 1..Len(table) |->
        [month |-> table[i].month, year |-> table[i].year,
         amount |-> table[i].target_amount, by |-> "earlier"]]

InitTarget ==
    /\ records = <<>>
    /\ request = NoFilter
    /\ response = NoResponse
    /\ divisors = {}
    /\ \E table \in TargetTables :
          database = [EmptyDatabase EXCEPT !.MonthlyTarget = table,
                                           !.journal = JournalOf(table)]
    /\ calls = NoCalls

NextTarget ==
    \/ \E w \in Workers, amount \in TargetAmounts : set_current_month_target_enter(w, amount)
    \/ \E w \in Workers : get_or_create_get(w)
    \/ \E w \in Workers : get_or_create_create(w)
    \/ \E w \in Workers : get_or_create_get_again(w)
    \/ \E w \in Workers : target_save(w)
    \/ get_current_month_target_call
    \/ Deliver

SpecTarget == InitTarget /\ [][NextTarget]_vars

\* the amount written last for this month among the first n committed writes,
\* 0 when there is none
LastWritten(n) ==
    LET mine == {i \in 1..n : /\ database.journal[i].month = Now.month
                              /\ database.journal[i].year = Now.year}
    IN  IF mine = {} THEN 0
        ELSE database.journal[CHOOSE i \in mine : \A j \in mine : j <= i].amount

\* C26: whatever the interleaving of the steps of concurrent
\* set_current_month_target calls of one month, given amounts of at most two
\* decimals: there is at most one MonthlyTarget row for a (month, year); no
\* call fails; the row of the month holds the amount of the write that was
\* committed last, which once a call has written is the amount that call was
\* given; and get_current_month_target returns the amount written last before
\* it read, 0 when no row existed.
C26_OneRowLastWriteWins ==
    /\ \A i, j \in 1..Len(database.MonthlyTarget) :
          (/\ database.MonthlyTarget[i].month = database.MonthlyTarget[j].month
           /\ database.MonthlyTarget[i].year = database.MonthlyTarget[j].year) => i = j
    /\ \A w \in Workers : calls[w].pc # "raised"
    /\ ~get_current_month_target_raises(database)
    /\ get_current_month_target(database) = LastWritten(Len(database.journal))
    /\ (\E i \in 1..Len(database.journal) : database.journal[i].by \in Workers) =>
          /\ Cardinality(MonthRows(database)) = 1
          /\ get_current_month_target(database) \in TargetAmounts
    /\ response.endpoint = "get_current_month_target" =>
          /\ response.computed
          /\ response.body = LastWritten(response.seen)

\* both workers found no row, one created it, the other was refused, looked the
\* row up and saved over it: one row, holding the amount of the second write
C26_Witness ==
    /\ Len(database.journal) = 2
    /\ database.journal[1].by = "w1"
    /\ database.journal[2].by = "w2"
    /\ database.journal[1].amount # database.journal[2].amount
    /\ calls["w1"].created
    /\ ~calls["w2"].created
    /\ calls["w2"].made = 1
    /\ calls["w2"].pc = "idle"
    /\ Len(database.MonthlyTarget) = 1
    /\ database.MonthlyTarget[1].target_amount = database.journal[2].amount
    /\ response.endpoint = "get_current_month_target"
    /\ response.body = database.journal[2].amount

-----------------------------------------------------------------------------
(* POST of the monthly target to api_daily_performance_metrics             *)

Digits == <<"0", "1", "2", "3", "4", "5", "6", "7", "8", "9">>

IsDigit(c) == \E d \in 1..10 : Digits[d] = c
DigitValue(c) == (CHOOSE d \in 1..10 : Digits[d] = c) - 1

\* str(n) of a non-negative JSON integer
RECURSIVE IntChars(_)
IntChars(n) == IF n < 10 THEN <<Digits[n + 1]>> ELSE Append(IntChars(n \div 10), Digits[(n % 10) + 1])

\* the characters of the texts sent as monthly_target
TargetChars(s) ==
    CASE s = "" -> <<>>
      [] s = "0" -> <<"0">>
      [] s = "abc" -> <<"a", "b", "c">>
      [] s = "1,200" -> <<"1", ",", "2", "0", "0">>
      [] s = "12.345" -> <<"1", "2", ".", "3", "4", "5">>
      [] s = "7.5" -> <<"7", ".", "5">>
      [] s = "1.2.3" -> <<"1", ".", "2", ".", "3">>

\* str(target_amount).replace(',', '')
WithoutCommas(chars) == LET NotComma(c) == c # "," IN SelectSeq(chars, NotComma)

\* the value of a run of digits
RECURSIVE DigitsValue(_)
DigitsValue(chars) ==
    IF chars = <<>> THEN 0
    ELSE 10 * DigitsValue(SubSeq(chars, 1, Len(chars) - 1)) + DigitValue(chars[Len(chars)])

\* Decimal(text) of a text made of digits, points and letters: digits with at
\* most one point and at least one digit, otherwise InvalidOperation; the value
\* in thousandths (the texts sent have at most three decimals)
TargetDecimal(chars) ==
    LET points == {i \in 1..Len(chars) : chars[i] = "."}
        point == IF points = {} THEN Len(chars) + 1 ELSE CHOOSE i \in points : TRUE
        whole == SubSeq(chars, 1, point - 1)
        frac == SubSeq(chars, point + 1, Len(chars))
        padded == frac \o SubSeq(<<"0", "0", "0">>, 1, 3 - Len(frac))
        ok == /\ Cardinality(points) <= 1
              /\ Len(whole) + Len(frac) > 0
              /\ \A i \in 1..Len(chars) : i \notin points => IsDigit(chars[i])
    IN  [ok |-> ok,
         value |-> IF ok THEN 1000 * DigitsValue(whole) + DigitsValue(padded) ELSE 0]

\* 'if target_amount:' on the value data.get('monthly_target') returned
TargetTruthy(v) ==
    \/ v.k = "num" /\ v.n # 0
    \/ v.k = "text" /\ v.s # ""

\* str(target_amount) of a truthy value
TargetStr(v) == IF v.k = "num" THEN IntChars(v.n) ELSE TargetChars(v.s)

\* the request body of a POST: not JSON, a JSON array, or a JSON object
InvalidJson == [k |-> "invalid", monthly_target |-> MissingV]
JsonArray == [k |-> "array", monthly_target |-> MissingV]
JsonObject(v) == [k |-> "object", monthly_target |-> v]

MaxJournal == 3

\* the handler returns and what it stored is committed
RespondStoring(req, resp, db) ==
    /\ request' = req
    /\ response' = resp
    /\ divisors' = {}
    /\ database' = db
    /\ UNCHANGED <<records, calls>>

\* api_daily_performance_metrics, request.method == 'POST' and no query
\* parameter: a body that is not JSON is answered 400; data.get on a JSON array
\* raises AttributeError, which the outer handler answers 500; a falsy
\* monthly_target leaves the POST branch without a response and the metrics of
\* the GET branch are computed and returned (500 when the fetch fails); a truthy
\* one is stored, or answered 400 when Decimal refuses it. target_amount of the
\* answer is the amount of the object in memory, not the one the column holds.
api_daily_performance_metrics_post(body, fetch_ok) ==
    /\ Idle
    /\ Len(database.journal) < MaxJournal
    /\ LET req == NoFilter @@ [method |-> "POST", body |-> body]
           target_amount == body.monthly_target
           chars == WithoutCommas(TargetStr(target_amount))
           answer(status, success, amount) ==
               [endpoint |-> "api_daily_performance_metrics", status |-> status,
                computed |-> status = 200, body |-> [success |-> success, target_amount |-> amount]]
       IN  IF body.k = "invalid" THEN RespondStoring(req, answer(400, "false", 0), database)
           ELSE IF body.k = "array" THEN RespondStoring(req, answer(500, "absent", 0), database)
           ELSE IF ~TargetTruthy(target_amount)
                THEN RespondStoring(req, answer(IF fetch_ok THEN 200 ELSE 500, "absent", 0), database)
           ELSE IF ~TargetDecimal(chars).ok
                THEN RespondStoring(req, answer(400, "false", 0), database)
           ELSE RespondStoring(req, answer(200, "true", TargetDecimal(chars).value),
                               set_current_month_target(database, "post", TargetDecimal(chars).value))

-----------------------------------------------------------------------------
(* Specification of the POSTs of the monthly target                        *)

PostBodies ==
    {InvalidJson, JsonArray}
        \cup {JsonObject(v) : v \in {MissingV, NullV, Num(0), Num(500)}}
        \cup {JsonObject(TextV(s)) : s \in {"", "0", "abc", "1,200", "12.345", "7.5", "1.2.3"}}

InitPost ==
    /\ records = <<>>
    /\ request = NoFilter
    /\ response = NoResponse
    /\ divisors = {}
    /\ \E table \in TargetTables :
          database = [EmptyDatabase EXCEPT !.MonthlyTarget = table,
                                           !.journal = JournalOf(table)]
    /\ calls = NoCalls

NextPost ==
    \* a request is taken up when the server is idle
    \/ Idle /\ \E body \in PostBodies, fetch_ok \in BOOLEAN :
                  api_daily_performance_metrics_post(body, fetch_ok)
    \/ Deliver

SpecPost == InitPost /\ [][NextPost]_vars

\* monthly_target of the body is a number: a JSON number, or a text that is a
\* decimal numeral once its commas are removed
IsValidNumber(body) ==
    /\ body.k = "object"
    /\ \/ body.monthly_target.k = "num"
       \/ /\ body.monthly_target.k = "text"
          /\ TargetDecimal(WithoutCommas(TargetChars(body.monthly_target.s))).ok

\* the number monthly_target of the body is, in thousandths
NumberOf(body) ==
    IF body.monthly_target.k = "num" THEN Rupees(body.monthly_target.n)
    ELSE TargetDecimal(WithoutCommas(TargetChars(body.monthly_target.s))).value

\* C30 (as claimed): a POST whose monthly_target is not a valid number (after
\* removing commas) is answered with status 400 and success false and leaves
\* the MonthlyTarget table as it was; a POST with a valid monthly_target leaves
\* exactly that amount in the row of the current (month, year) and returns it
\* as target_amount.
C30_PostStoresOrRejects ==
    [][(response.endpoint = "none" /\ response'.endpoint = "api_daily_performance_metrics") =>
          IF IsValidNumber(request'.body)
          THEN /\ response'.body.success = "true"
               /\ response'.body.target_amount = NumberOf(request'.body)
               /\ Cardinality(MonthRows(database')) = 1
               /\ get_current_month_target(database') = NumberOf(request'.body)
          ELSE /\ response'.status = 400
               /\ response'.body.success = "false"
               /\ database'.MonthlyTarget = database.MonthlyTarget]_vars

-----------------------------------------------------------------------------
(* DataSyncService.sync_loan_data: upsert of LoanRecord by loan_no         *)

\* DataSyncService._parse_date: None for a falsy text; a trailing 'T...Z' is
\* cut off and the date read as written (no shift to IST); a text with 'T' and
\* no 'Z' is read with '%Y-%m-%dT%H:%M:%S', which an offset suffix defeats;
\* anything else gives None
_parse_date(ts) ==
    IF ts.kind \in {"Z", "date", "naive"} THEN [ok |-> TRUE, day |-> ts.day]
    ELSE [ok |-> FALSE, day |-> 0]

\* building the arguments of update_or_create raises: record_data['loan_no']
\* or ['lead_no'] on an absent key (KeyError), Decimal(str(...)) on an amount
\* that is absent (KeyError) or not a numeral (InvalidOperation). The other
\* fields read with [] are present and well-formed in the records synced here.
sync_record_raises(record_data) ==
    \/ record_data.loan_no = MissingS
    \/ record_data.lead_no = MissingS
    \/ record_data.loan_amount.k # "num"

\* the row update_or_create writes for a record at time now
LoanRow(record_data, created_at, now) ==
    [loan_no |-> record_data.loan_no,
     lead_no |-> record_data.lead_no,
     loan_amount |-> Rupees(record_data.loan_amount.n),
     sanction_date |-> _parse_date(record_data.sanction_date).day,
     state |-> record_data.state,
     created_at |-> created_at,
     updated_at |-> now]

\* the primary keys of the rows with a loan_no
LoanRows(table, loan_no) == {pk \in 1..Len(table) : table[pk].loan_no = loan_no}

\* lead_no is unique: no row other than pk holds it
LeadUnique(table, pk, lead_no) ==
    \A other \in 1..Len(table) : other # pk => table[other].lead_no # lead_no

\* the database refuses the row: a NULL in loan_no, lead_no or sanction_date
\* (columns without null=True), or a lead_no another row holds
write_refused(table, pk, record_data) ==
    \/ record_data.loan_no = NoneS
    \/ record_data.lead_no = NoneS
    \/ ~_parse_date(record_data.sanction_date).ok
    \/ ~LeadUnique(table, pk, record_data.lead_no)

\* LoanRecord.objects.update_or_create(loan_no=..., defaults={...}) inside the
\* try of the loop: the table it leaves, whether a row was created, and whether
\* the record was skipped (an exception was logged)
update_or_create(table, record_data, now) ==
    LET found == LoanRows(table, record_data.loan_no)
        pk == IF found = {} THEN 0 ELSE CHOOSE k \in found : TRUE
    IN  IF sync_record_raises(record_data) \/ write_refused(table, pk, record_data)
        THEN [table |-> table, created |-> FALSE, skipped |-> TRUE]
        ELSE IF found = {}
             THEN [table |-> Append(table, LoanRow(record_data, now, now)),
                   created |-> TRUE, skipped |-> FALSE]
             ELSE [table |-> [table EXCEPT ![pk] = LoanRow(record_data, table[pk].created_at, now)],
                   created |-> FALSE, skipped |-> FALSE]

\* the loop of sync_loan_data over api_data[i..]: the table it leaves,
\* synced_count, and the positions of the records it skipped
RECURSIVE sync_loop(_, _, _, _)
sync_loop(table, api_data, i, now) ==
    IF i > Len(api_data) THEN [table |-> table, synced_count |-> 0, skipped |-> {}]
    ELSE LET step == update_or_create(table, api_data[i], now)
             rest == sync_loop(step.table, api_data, i + 1, now)
         IN  [table |-> rest.table,
              synced_count |-> rest.synced_count + (IF step.created THEN 1 ELSE 0),
              skipped |-> rest.skipped \cup (IF step.skipped THEN {i} ELSE {})]

MaxSyncs == 3

\* one run of sync_loan_data: api_data is what fetch_loan_data returned (the
\* upstream records, or the mock records it falls back to); the clock moves on
\* between runs
sync_loan_data(api_data) ==
    /\ Idle
    /\ database.clock < MaxSyncs
    /\ LET now == database.clock + 1
           done == sync_loop(database.LoanRecord, api_data, 1, now)
       IN  /\ database' = [database EXCEPT !.LoanRecord = done.table, !.clock = now]
           /\ response' = OkResponse("sync_loan_data",
                                     [synced_count |-> done.synced_count,
                                      skipped |-> done.skipped])
    /\ records' = api_data
    /\ request' = NoFilter
    /\ divisors' = {}
    /\ UNCHANGED calls

-----------------------------------------------------------------------------
(* Specification of the synchronisation runs                               *)

SyncRecord(loan_no, lead_no, loan_amount, sanction_date) ==
    [loan_no |-> loan_no, lead_no |-> lead_no, loan_amount |-> loan_amount,
     sanction_date |-> sanction_date, state |-> "Maharashtra"]

\* upstream records: two loans, two leads, and records that cannot be stored
SyncRecords ==
    {SyncRecord(l, d, Num(100), Stamp("Z", 5, 600, 0)) : l \in {"L1", "L2"}, d \in {"D1", "D2"}}
        \cup {SyncRecord("L1", "D1", Num(200), Stamp("date", 6, 0, 0)),
              SyncRecord("L2", "D2", NullV, Stamp("Z", 5, 600, 0)),
              SyncRecord(MissingS, "D2", Num(100), Stamp("Z", 5, 600, 0)),
              SyncRecord("L2", "D2", Num(100), NoStamp)}

InitSync ==
    /\ records = <<>>
    /\ request = NoFilter
    /\ response = NoResponse
    /\ divisors = {}
    /\ database = EmptyDatabase
    /\ calls = NoCalls

NextSync ==
    \* a run starts when the one before has returned
    \/ Idle /\ \E api_data \in ListsUpTo(SyncRecords, MaxRecords) : sync_loan_data(api_data)
    \/ Deliver

SpecSync == InitSync /\ [][NextSync]_vars

\* C29 (as claimed): after a run of sync_loan_data there is at most one stored
\* LoanRecord per loan_no; the value returned is the number of records the run
\* created; a record that could not be stored does not keep a later record of
\* the batch from being stored; and a run over the same upstream data as the
\* run before returns 0 and leaves every stored field of every row unchanged.
C29_UpsertByLoanNo ==
    [][(response.endpoint = "none" /\ response'.endpoint = "sync_loan_data") =>
          LET before == database.LoanRecord
              after == database'.LoanRecord
              skipped == response'.body.skipped
          IN  /\ \A i, j \in 1..Len(after) : after[i].loan_no = after[j].loan_no => i = j
              /\ response'.body.synced_count = Len(after) - Len(before)
              /\ \A i, j \in 1..Len(records') :
                    (i < j /\ i \in skipped /\ j \notin skipped) =>
                        \E pk \in 1..Len(after) :
                            /\ after[pk].loan_no = records'[j].loan_no
                            /\ after[pk].updated_at = database'.clock
              /\ records' = records =>
                    /\ response'.body.synced_count = 0
                    /\ after = before]_vars

=============================================================================
